---------------------------- MODULE Spec2Model ----------------------------
(***************************************************************************)
(* Subscription & Entitlement Engine of the barber-backend repository.     *)
(*                                                                         *)
(* The persisted state is three PostgreSQL tables (subscriptions,          *)
(* payments, manual_payment_reports).  Every HTTP handler runs on its own  *)
(* pooled connection; pg's default isolation level READ COMMITTED applies  *)
(* (src/src/db/connection.js sets none): a statement sees the rows         *)
(* committed when it starts plus the writes of its own transaction, an     *)
(* UPDATE or SELECT ... FOR UPDATE takes the row's lock until COMMIT or    *)
(* ROLLBACK and waits while another transaction holds it.                  *)
(*                                                                         *)
(* Each handler is a process; one step is one awaited statement (or        *)
(* provider call) together with the synchronous code up to the next await. *)
(* Time is counted in days.                                                *)
(***************************************************************************)
EXTENDS Integers, Sequences, FiniteSets, TLC

VARIABLES
    now,        \* the wall clock read by new Date(), in days
    usage,      \* owner -> {shopCount, professionalCount} (shops / users tables)
    shops,      \* barber_shops: shop id -> owner_id (NULL when unassigned)
    subs,       \* committed subscriptions rows, keyed by owner_id
    payments,   \* committed payments rows, in commit order
    reports,    \* committed manual_payment_reports rows, keyed by id
    notifs,     \* committed notifications rows, in commit order
    appRows,    \* committed rows written by the gated operations, in commit order
    lock,       \* owner -> the process holding the subscriptions row lock
    repLock,    \* report id -> the process holding the report row lock
    pc,         \* process -> position in its handler
    req,        \* process -> the request it handles and the provider's answers
    loc,        \* process -> the handler's local variables
    wr,         \* process -> the uncommitted writes of its transaction
    res,        \* process -> the HTTP response sent
    renewLog,   \* history: the renewals committed so far, in commit order
    nreq,       \* history: number of requests received
    captured,   \* the provider: the orders whose capture it has completed
    arg, out    \* arguments and result of a call of computeSubscriptionState

vars == <<now, usage, shops, subs, payments, reports, notifs, appRows, lock, repLock,
          pc, req, loc, wr, res, renewLog, nreq, captured, arg, out>>

-----------------------------------------------------------------------------
(* Bounds of the model *)

\* the clock runs from day 0 to day MaxNow
MaxNow == 2
\* requests handled in one behaviour
MaxReqs == 2

(* Program constants *)

\* 30 * 24 * 60 * 60 * 1000 ms, in days
PeriodDays == 30
\* 5 * 24 * 60 * 60 * 1000 ms, in days
GraceDays == 5

-----------------------------------------------------------------------------
(* Values *)

NULL == "NULL"
\* a NULL timestamp column / a null Date
NoTime == 0 - 100000
NoProc == "none"
\* a null amount
NoAmount == 0 - 1

Procs == {"p1", "p2"}
Owners == {"o1"}
\* the ids the sequence of manual_payment_reports hands out, in order
ReportIdSeq == <<"r1", "r2", "r3", "r4">>
ReportIds == {"r1", "r2", "r3", "r4"}

Max(a, b) == IF a >= b THEN a ELSE b

\* JavaScript's a || b on values whose only falsy member is NULL
Or(a, b) == IF a # NULL THEN a ELSE b

-----------------------------------------------------------------------------
(* Pricing Tier Selector *)

PLAN_TIERS ==
    << [code |-> "basic_1", priceDop |-> 1000, shops |-> 1, professionals |-> 2],
       [code |-> "basic_2", priceDop |-> 1500, shops |-> 1, professionals |-> 3],
       [code |-> "pro",     priceDop |-> 2000, shops |-> 2, professionals |-> 6],
       [code |-> "premium", priceDop |-> 2500, shops |-> 3, professionals |-> 12] >>

\* tier: null
NoTier == [code |-> NULL, priceDop |-> 0, shops |-> 0, professionals |-> 0]

\* a selection that takes the largest tier that fits
selectTierForUsage_largest(u) ==
    LET shopsN == Max(0, u.shopCount)
        pros == Max(0, u.professionalCount)
        fits == {i \in 1..Len(PLAN_TIERS) :
                    shopsN <= PLAN_TIERS[i].shops /\ pros <= PLAN_TIERS[i].professionals}
        tier == IF fits = {} THEN NoTier
                ELSE PLAN_TIERS[CHOOSE i \in fits : \A j \in fits : i >= j]
        maxTier == PLAN_TIERS[Len(PLAN_TIERS)]
        overShops == Max(0, shopsN - maxTier.shops)
        overProfessionals == Max(0, pros - maxTier.professionals)
    IN  [tier |-> tier,
         isOverLimit |-> (tier = NoTier /\ (overShops > 0 \/ overProfessionals > 0)),
         overage |-> [shops |-> overShops, professionals |-> overProfessionals]]

\* PLAN_TIERS.find(fits) || null, and the overage beyond the last tier
selectTierForUsage(u) ==
    LET shopsN == Max(0, u.shopCount)
        pros == Max(0, u.professionalCount)
        fits == {i \in 1..Len(PLAN_TIERS) :
                    shopsN <= PLAN_TIERS[i].shops /\ pros <= PLAN_TIERS[i].professionals}
        tier == IF fits = {} THEN NoTier
                ELSE PLAN_TIERS[CHOOSE i \in fits : \A j \in fits : i <= j]
        maxTier == PLAN_TIERS[Len(PLAN_TIERS)]
        overShops == Max(0, shopsN - maxTier.shops)
        overProfessionals == Max(0, pros - maxTier.professionals)
    IN  [tier |-> tier,
         isOverLimit |-> (tier = NoTier /\ (overShops > 0 \/ overProfessionals > 0)),
         overage |-> [shops |-> overShops, professionals |-> overProfessionals]]

\* total: null is NoTotal
NoTotal == 0 - 1

\* a price that falls back to the last tier when none fits
computeMonthlyPriceDop_capped(u) ==
    LET sel == selectTierForUsage(u)
        tier == IF sel.tier # NoTier THEN sel.tier ELSE PLAN_TIERS[Len(PLAN_TIERS)]
    IN  [tier |-> tier, total |-> tier.priceDop, isOverLimit |-> FALSE,
         overage |-> sel.overage]

computeMonthlyPriceDop(u) ==
    LET sel == selectTierForUsage(u)
    IN  IF sel.tier = NoTier /\ sel.isOverLimit
        THEN [tier |-> NoTier, total |-> NoTotal, isOverLimit |-> TRUE,
              overage |-> sel.overage]
        ELSE LET tier == IF sel.tier # NoTier THEN sel.tier ELSE PLAN_TIERS[1]
             IN  [tier |-> tier, total |-> tier.priceDop, isOverLimit |-> FALSE,
                  overage |-> sel.overage]

-----------------------------------------------------------------------------
(* Entitlement State Machine *)

\* a NULL or unparsable column gives null, anything else the Date it denotes
parsePgTimestamp(value) == IF value = NoTime THEN NoTime ELSE value

\* computeSubscriptionState with the comparisons written now < end
computeSubscriptionState_strict(subscriptionRow, clock) ==
    LET periodEnd == parsePgTimestamp(subscriptionRow.current_period_end)
        graceEnd == parsePgTimestamp(subscriptionRow.grace_period_end)
        isActive == periodEnd # NoTime /\ clock < periodEnd
        isInGrace == ~isActive /\ graceEnd # NoTime /\ clock < graceEnd
        isBlocked == ~isActive /\ ~isInGrace
    IN  [now |-> clock, periodEnd |-> periodEnd, graceEnd |-> graceEnd,
         isActive |-> isActive, isInGrace |-> isInGrace, isBlocked |-> isBlocked]

computeSubscriptionState(subscriptionRow, clock) ==
    LET periodEnd == parsePgTimestamp(subscriptionRow.current_period_end)
        graceEnd == parsePgTimestamp(subscriptionRow.grace_period_end)
        isActive == periodEnd # NoTime /\ clock <= periodEnd
        isInGrace == ~isActive /\ graceEnd # NoTime /\ clock <= graceEnd
        isBlocked == ~isActive /\ ~isInGrace
    IN  [now |-> clock, periodEnd |-> periodEnd, graceEnd |-> graceEnd,
         isActive |-> isActive, isInGrace |-> isInGrace, isBlocked |-> isBlocked]

-----------------------------------------------------------------------------
(* Rows *)

\* the row INSERTed by getOrCreateOwnerSubscription at time clock; the columns
\* the INSERT does not name take NULL
\* a first row whose period ends on the day of its creation
NewSubscriptionRow_noPeriod(clock) ==
    [status |-> "active",
     plan_code |-> NULL,
     pending_plan_code |-> NULL,
     billing_provider |-> NULL,
     paypal_subscription_id |-> NULL,
     paypal_subscription_status |-> NULL,
     current_period_start |-> clock,
     current_period_end |-> clock,
     grace_period_end |-> clock + GraceDays,
     last_alert_sent_at |-> NoTime,
     pending_plan_effective_at |-> NoTime]

NewSubscriptionRow(clock) ==
    [status |-> "active",
     plan_code |-> NULL,
     pending_plan_code |-> NULL,
     billing_provider |-> NULL,
     paypal_subscription_id |-> NULL,
     paypal_subscription_status |-> NULL,
     current_period_start |-> clock,
     current_period_end |-> clock + PeriodDays,
     grace_period_end |-> clock + PeriodDays + GraceDays,
     last_alert_sent_at |-> NoTime,
     pending_plan_effective_at |-> NoTime]

PaymentRow(ownerId, provider, amount, currency, providerPaymentId, reportId) ==
    [owner_id |-> ownerId, provider |-> provider, status |-> "confirmed",
     amount |-> amount, currency |-> currency,
     provider_payment_id |-> providerPaymentId,
     reportId |-> reportId]

\* the values of createManualPaymentReport's INSERT; decided_at is NULL or
\* "set": no statement of the sources reads the timestamp it holds
NewReportRow(ownerId, amount, currency, reference, proofUrl) ==
    [owner_id |-> ownerId, amount |-> amount, currency |-> currency,
     reference_text |-> reference, proof_url |-> proofUrl, status |-> "pending",
     approved_by |-> NULL, rejected_by |-> NULL, decided_at |-> NULL]

\* a report of 1500 DOP with a reference, as it is once it has the given status
ReportRow(ownerId, status, by) ==
    [NewReportRow(ownerId, 1500, "DOP", "ref-1", NULL) EXCEPT
        !.status = status,
        !.approved_by = IF status = "approved" THEN by ELSE NULL,
        !.rejected_by = IF status = "rejected" THEN by ELSE NULL,
        !.decided_at = IF status = "pending" THEN NULL ELSE "set"]

-----------------------------------------------------------------------------
(* Requests, locals, transactions *)

NoResource == [billing_agreement_id |-> NULL, id |-> NULL, subscription_id |-> NULL,
               sale_id |-> NULL, transaction_id |-> NULL, status |-> NULL]

NoEvent == [event_type |-> NULL, resource |-> NoResource]

\* a request: the authenticated user, the body / params, and what the payment
\* provider answers to the calls the handler makes
NoReq ==
    [op |-> "none", userId |-> NULL, role |-> NULL, ownerId |-> NULL,
     reportId |-> NULL, orderId |-> NULL, shopId |-> NULL,
     ppOk |-> FALSE, ppStatus |-> NULL, captureId |-> NULL, ppPlanCode |-> NULL,
     verified |-> FALSE, event |-> NoEvent, retry |-> FALSE,
     planCode |-> NULL, subscriptionId |-> NULL, ppSubscriptionId |-> NULL,
     nextBilling |-> NoTime,
     amount |-> NoAmount, currency |-> NULL, reference |-> NULL, proofUrl |-> NULL]

NoSub == <<>>

NoLoc ==
    [ownerId |-> NULL, ret |-> "none", sub |-> NoSub, clock |-> NoTime,
     planCode |-> NULL, start |-> NoTime, periodEnd |-> NoTime, graceEnd |-> NoTime,
     renewed |-> FALSE, report |-> <<>>, exists |-> FALSE,
     gate |-> <<>>, resp |-> [status |-> 0]]

NoWr == [sub |-> [o \in Owners |-> <<>>], pay |-> <<>>,
         rep |-> [r \in ReportIds |-> <<>>], notif |-> <<>>, app |-> <<>>]

NoRes == [status |-> 0]

\* what a statement of p's transaction sees of owner o's subscriptions row:
\* its own uncommitted write, else the committed row; <<>> when there is none
ViewSub(p, o) ==
    IF wr[p].sub[o] # <<>> THEN wr[p].sub[o]
    ELSE IF o \in DOMAIN subs THEN <<subs[o]>> ELSE <<>>

ViewReport(p, r) ==
    IF wr[p].rep[r] # <<>> THEN wr[p].rep[r]
    ELSE IF r \in DOMAIN reports THEN <<reports[r]>> ELSE <<>>

\* the payments rows a statement of p's transaction sees
ViewPayments(p) == payments \o wr[p].pay

\* a row lock is granted when no other transaction holds it
CanLock(p, o) == lock[o] \in {NoProc, p}
CanLockReport(p, r) == repLock[r] \in {NoProc, p}

clockVars == <<now, usage, shops, arg, out>>
dbVars == <<subs, payments, reports, notifs, appRows>>
lockVars == <<lock, repLock>>
histVars == <<renewLog, nreq, captured>>

\* p moves to position l with locals v
Goto(p, l, v) ==
    /\ pc' = [pc EXCEPT ![p] = l]
    /\ loc' = [loc EXCEPT ![p] = v]

\* p answers without having opened a transaction
Reply(p, response) ==
    /\ pc' = [pc EXCEPT ![p] = "done"]
    /\ loc' = [loc EXCEPT ![p] = NoLoc]
    /\ res' = [res EXCEPT ![p] = response]

NoDetails == [ownerId |-> NULL, periodEnd |-> NoTime, graceEnd |-> NoTime]

Response(status, message) ==
    [status |-> status, message |-> message, details |-> NoDetails]

\* a catch block that sends COMMIT where the handlers send ROLLBACK
Throw_commit(p, status, message) ==
    Goto(p, "commit", [loc[p] EXCEPT !.resp = Response(status, message)])

\* a throw inside the handler's try: the catch block sends ROLLBACK and answers
\* with error.status || 500
Throw(p, status, message) ==
    Goto(p, "rollback", [loc[p] EXCEPT !.resp = Response(status, message)])

\* role.includes('admin')
IsAdmin(role) == role = "admin"
\* role.includes('admin') || role.includes('owner')
IsAdminOrOwner(role) == role \in {"admin", "owner"}

-----------------------------------------------------------------------------
(* Subscription Record Store *)

\* SELECT * FROM subscriptions WHERE owner_id = $1 LIMIT 1, and the values of
\* the INSERT when there is no row
getOrCreateOwnerSubscription_select(p) ==
    /\ pc[p] = "goc_select"
    /\ LET o == loc[p].ownerId
           existing == ViewSub(p, o)
       IN  IF existing # <<>>
           THEN Goto(p, loc[p].ret, [loc[p] EXCEPT !.sub = existing])
           ELSE Goto(p, "goc_insert", [loc[p] EXCEPT !.clock = now])
    /\ UNCHANGED <<clockVars, dbVars, lockVars, histVars, req, wr, res>>

\* a table without the unique key: no INSERT is refused
UniqueOwnerKeyConflict_none(o) == FALSE

\* owner_id is the unique key of subscriptions (the schema is not part of the
\* sources): an INSERT of a key that is committed fails
UniqueOwnerKeyConflict(o) == o \in DOMAIN subs

\* INSERT INTO subscriptions ... RETURNING *; the INSERT waits for a concurrent
\* uncommitted INSERT of the same key and fails once that one has committed
getOrCreateOwnerSubscription_insert(p) ==
    /\ pc[p] = "goc_insert"
    /\ LET o == loc[p].ownerId
           row == NewSubscriptionRow(loc[p].clock)
       IN  /\ CanLock(p, o)
           /\ IF UniqueOwnerKeyConflict(o)
              THEN /\ Throw(p, 500, "duplicate key")
                   /\ UNCHANGED <<wr, lock>>
              ELSE /\ wr' = [wr EXCEPT ![p].sub[o] = <<row>>]
                   /\ lock' = [lock EXCEPT ![o] = p]
                   /\ Goto(p, loc[p].ret, [loc[p] EXCEPT !.sub = <<row>>])
    /\ UNCHANGED <<clockVars, dbVars, repLock, histVars, req, res>>

-----------------------------------------------------------------------------
(* Renewal Operation *)

\* sub.pending_plan_code || sub.plan_code || pricing.tier.code || null
renewPlanCode(sub, pricing) ==
    Or(Or(sub.pending_plan_code, sub.plan_code), pricing.tier.code)

\* renewStart that always starts the new period now
renewStart_fromNow(sub, clock) == clock

\* start = currentEnd && currentEnd > now ? currentEnd : now
renewStart(sub, clock) ==
    LET currentEnd == sub.current_period_end
    IN  IF currentEnd # NoTime /\ currentEnd > clock THEN currentEnd ELSE clock

renewPeriodEnd(start) == start + PeriodDays

renewGraceEnd(periodEnd) == periodEnd + GraceDays

\* the SET list of renewSubscription30Days' UPDATE applied to the row it finds
renewUpdateRow(row, l) ==
    [row EXCEPT !.status = "active",
                !.plan_code = Or(l.planCode, row.plan_code),
                !.current_period_start = l.start,
                !.current_period_end = l.periodEnd,
                !.grace_period_end = l.graceEnd]

\* computeOwnerUsageCounts, then the synchronous computation of the new period
renewSubscription30Days_compute(p) ==
    /\ pc[p] = "renew_usage"
    /\ LET sub == loc[p].sub[1]
           pricing == computeMonthlyPriceDop(usage[loc[p].ownerId])
           start == renewStart(sub, now)
           periodEnd == renewPeriodEnd(start)
       IN  Goto(p, "renew_update",
                [loc[p] EXCEPT !.planCode = renewPlanCode(sub, pricing),
                               !.clock = now,
                               !.start = start,
                               !.periodEnd = periodEnd,
                               !.graceEnd = renewGraceEnd(periodEnd)])
    /\ UNCHANGED <<clockVars, dbVars, lockVars, histVars, req, wr, res>>

\* where the caller of renewSubscription30Days continues
AfterRenew(op) ==
    CASE op = "paypalCaptureOrder" -> "cap_insert"
      [] op = "approveManualPaymentReport" -> "apr_insert"
      [] op = "paypalWebhook" -> "wh_insert"
      [] OTHER -> "commit"

\* UPDATE subscriptions SET ... WHERE owner_id = $1 RETURNING *
renewSubscription30Days_update(p) ==
    /\ pc[p] = "renew_update"
    /\ LET o == loc[p].ownerId
           row == ViewSub(p, o)[1]
           updated == renewUpdateRow(row, loc[p])
       IN  /\ CanLock(p, o)
           /\ wr' = [wr EXCEPT ![p].sub[o] = <<updated>>]
           /\ lock' = [lock EXCEPT ![o] = p]
           /\ Goto(p, AfterRenew(req[p].op),
                   [loc[p] EXCEPT !.renewed = TRUE,
                                  !.resp = Response(200, "ok")])
    /\ UNCHANGED <<clockVars, dbVars, repLock, histVars, req, res>>

-----------------------------------------------------------------------------
(* COMMIT and ROLLBACK *)

ReleaseLocks(p) ==
    /\ lock' = [o \in Owners |-> IF lock[o] = p THEN NoProc ELSE lock[o]]
    /\ repLock' = [r \in ReportIds |-> IF repLock[r] = p THEN NoProc ELSE repLock[r]]

\* the committed period end of owner o, NoTime when there is no row
CommittedEnd(o) ==
    IF o \in DOMAIN subs THEN subs[o].current_period_end ELSE NoTime

\* the external transaction, order or report a request is about
RequestKey(r) ==
    CASE r.op = "paypalWebhook" ->
             Or(Or(r.event.resource.id, r.event.resource.sale_id),
                r.event.resource.transaction_id)
      [] r.op = "paypalCaptureOrder" -> Or(r.captureId, r.orderId)
      [] OTHER -> r.reportId

\* history of a committed renewal: the request, the clock and the row it
\* computed from (read), the period end that was committed when it committed
\* (base), what it wrote, and where the other processes were at its commit
RenewalEntry(p) ==
    [proc |-> p, op |-> req[p].op, key |-> RequestKey(req[p]),
     ownerId |-> loc[p].ownerId,
     clock |-> loc[p].clock,
     read |-> loc[p].sub[1].current_period_end,
     base |-> IF loc[p].ownerId \in DOMAIN subs
              THEN CommittedEnd(loc[p].ownerId)
              ELSE loc[p].sub[1].current_period_end,
     start |-> loc[p].start, periodEnd |-> loc[p].periodEnd,
     peers |-> {pc[q] : q \in Procs \ {p}}]

\* a commit that keeps one Payment row per owner, the newest
Commit_upsert(p) ==
    /\ pc[p] = "commit"
    /\ subs' = [o \in DOMAIN subs \cup {x \in Owners : wr[p].sub[x] # <<>>} |->
                   IF wr[p].sub[o] # <<>> THEN wr[p].sub[o][1] ELSE subs[o]]
    /\ payments' = SelectSeq(payments, LAMBDA row :
                       \A i \in 1..Len(wr[p].pay) : wr[p].pay[i].owner_id # row.owner_id)
                   \o wr[p].pay
    /\ reports' = [r \in DOMAIN reports \cup {x \in ReportIds : wr[p].rep[x] # <<>>} |->
                      IF wr[p].rep[r] # <<>> THEN wr[p].rep[r][1] ELSE reports[r]]
    /\ notifs' = notifs \o wr[p].notif
    /\ appRows' = appRows \o wr[p].app
    /\ ReleaseLocks(p)
    /\ renewLog' = IF loc[p].renewed THEN Append(renewLog, RenewalEntry(p))
                   ELSE renewLog
    /\ wr' = [wr EXCEPT ![p] = NoWr]
    /\ Reply(p, loc[p].resp)
    /\ UNCHANGED <<clockVars, nreq, captured, req>>

Commit(p) ==
    /\ pc[p] = "commit"
    /\ subs' = [o \in DOMAIN subs \cup {x \in Owners : wr[p].sub[x] # <<>>} |->
                   IF wr[p].sub[o] # <<>> THEN wr[p].sub[o][1] ELSE subs[o]]
    /\ payments' = payments \o wr[p].pay
    /\ reports' = [r \in DOMAIN reports \cup {x \in ReportIds : wr[p].rep[x] # <<>>} |->
                      IF wr[p].rep[r] # <<>> THEN wr[p].rep[r][1] ELSE reports[r]]
    /\ notifs' = notifs \o wr[p].notif
    /\ appRows' = appRows \o wr[p].app
    /\ ReleaseLocks(p)
    /\ renewLog' = IF loc[p].renewed THEN Append(renewLog, RenewalEntry(p))
                   ELSE renewLog
    /\ wr' = [wr EXCEPT ![p] = NoWr]
    /\ Reply(p, loc[p].resp)
    /\ UNCHANGED <<clockVars, nreq, captured, req>>

Rollback(p) ==
    /\ pc[p] = "rollback"
    /\ ReleaseLocks(p)
    /\ wr' = [wr EXCEPT ![p] = NoWr]
    /\ Reply(p, loc[p].resp)
    /\ UNCHANGED <<clockVars, dbVars, histVars, req>>

\* the positions of the rail handlers between BEGIN and the answer to COMMIT
TransactionPcs ==
    {"goc_select", "goc_insert", "renew_usage", "renew_update", "cap_insert",
     "apr_insert", "apr_mark", "wh_lock", "wh_exists", "wh_insert", "wh_activate",
     "mpr_insert", "mpr_update", "commit"}

\* the statement p awaits rejects (connection lost, statement error): control
\* passes to the handler's catch block
StatementFails(p) ==
    /\ pc[p] \in TransactionPcs
    /\ Throw(p, 500, "Error del servidor")
    /\ UNCHANGED <<clockVars, dbVars, lockVars, histVars, req, wr, res>>

-----------------------------------------------------------------------------
(* One-off order rail *)

\* the handler reaches the capture call and the provider answers it with a
\* completed capture
ProviderCaptures(r) ==
    /\ r.userId # NULL
    /\ IsAdminOrOwner(r.role)
    /\ r.orderId # NULL
    /\ r.ppOk
    /\ r.ppStatus = "COMPLETED"

\* a handler that goes on whatever status the capture has
paypalCaptureOrder_capture_anyStatus(p) ==
    /\ pc[p] = "capture"
    /\ LET r == req[p]
       IN  IF r.userId = NULL THEN Reply(p, Response(401, "Authentication required"))
           ELSE IF ~IsAdminOrOwner(r.role) THEN Reply(p, Response(403, "Acceso denegado"))
           ELSE IF r.orderId = NULL THEN Reply(p, Response(400, "orderId requerido"))
           ELSE IF ~r.ppOk
                THEN /\ Throw(p, 502, "Error capturando orden de PayPal")
                     /\ UNCHANGED res
           ELSE /\ Goto(p, "goc_select",
                        [loc[p] EXCEPT !.ownerId = r.userId, !.ret = "renew_usage"])
                /\ UNCHANGED res
    /\ captured' = IF ProviderCaptures(req[p]) THEN captured \cup {req[p].orderId}
                   ELSE captured
    /\ UNCHANGED <<clockVars, dbVars, lockVars, renewLog, nreq, req, wr>>

\* auth checks, POST /v2/checkout/orders/:id/capture, the COMPLETED check, BEGIN
paypalCaptureOrder_capture(p) ==
    /\ pc[p] = "capture"
    /\ LET r == req[p]
       IN  IF r.userId = NULL THEN Reply(p, Response(401, "Authentication required"))
           ELSE IF ~IsAdminOrOwner(r.role) THEN Reply(p, Response(403, "Acceso denegado"))
           ELSE IF r.orderId = NULL THEN Reply(p, Response(400, "orderId requerido"))
           ELSE IF ~r.ppOk
                THEN /\ Throw(p, 502, "Error capturando orden de PayPal")
                     /\ UNCHANGED res
           ELSE IF r.ppStatus # "COMPLETED"
                THEN Reply(p, Response(400, "Pago no completado"))
           ELSE /\ Goto(p, "goc_select",
                        [loc[p] EXCEPT !.ownerId = r.userId, !.ret = "renew_usage"])
                /\ UNCHANGED res
    /\ captured' = IF ProviderCaptures(req[p]) THEN captured \cup {req[p].orderId}
                   ELSE captured
    /\ UNCHANGED <<clockVars, dbVars, lockVars, renewLog, nreq, req, wr>>

\* INSERT INTO payments (... 'paypal' ... captureId || orderId ...)
paypalCaptureOrder_insert(p) ==
    /\ pc[p] = "cap_insert"
    /\ wr' = [wr EXCEPT ![p].pay =
                 Append(@, PaymentRow(loc[p].ownerId, "paypal", 20, "USD",
                                      Or(req[p].captureId, req[p].orderId), NULL))]
    /\ Goto(p, "commit", [loc[p] EXCEPT !.resp = Response(200, "success")])
    /\ UNCHANGED <<clockVars, dbVars, lockVars, histVars, req, res>>

-----------------------------------------------------------------------------
(* Manual-transfer rail *)

\* !value of a string of the request body
Falsy(v) == v \in {NULL, ""}

\* the owner the body names, whoever calls
finalOwnerId_fromBody(r) == IF r.ownerId # NULL THEN r.ownerId ELSE r.userId

\* role.includes('admin') ? (ownerId ?? req.user.userId) : req.user.userId
finalOwnerId(r) == IF IsAdmin(r.role) /\ r.ownerId # NULL THEN r.ownerId ELSE r.userId

\* the checks of createManualPaymentReport without the one of the reference
\* and the proof
createManualPaymentReport_begin_unchecked(p) ==
    /\ pc[p] = "mpr_begin"
    /\ LET r == req[p]
       IN  IF r.userId = NULL THEN Reply(p, Response(401, "Authentication required"))
           ELSE IF ~IsAdminOrOwner(r.role) THEN Reply(p, Response(403, "Acceso denegado"))
           ELSE IF Falsy(finalOwnerId(r)) THEN Reply(p, Response(400, "ownerId requerido"))
           ELSE /\ Goto(p, "goc_select",
                        [loc[p] EXCEPT !.ownerId = finalOwnerId(r), !.ret = "mpr_insert"])
                /\ UNCHANGED res
    /\ UNCHANGED <<clockVars, dbVars, lockVars, histVars, req, wr>>

\* the checks of createManualPaymentReport, then BEGIN
createManualPaymentReport_begin(p) ==
    /\ pc[p] = "mpr_begin"
    /\ LET r == req[p]
       IN  IF r.userId = NULL THEN Reply(p, Response(401, "Authentication required"))
           ELSE IF ~IsAdminOrOwner(r.role) THEN Reply(p, Response(403, "Acceso denegado"))
           ELSE IF Falsy(finalOwnerId(r)) THEN Reply(p, Response(400, "ownerId requerido"))
           ELSE IF Falsy(r.reference) /\ Falsy(r.proofUrl)
                THEN Reply(p, Response(400, "Debes enviar referencia o comprobante"))
           ELSE /\ Goto(p, "goc_select",
                        [loc[p] EXCEPT !.ownerId = finalOwnerId(r), !.ret = "mpr_insert"])
                /\ UNCHANGED res
    /\ UNCHANGED <<clockVars, dbVars, lockVars, histVars, req, wr>>

\* the id the sequence gives to the next report: the first one that no
\* committed row and no open transaction has
NextReportId ==
    LET used == DOMAIN reports \cup
                {x \in ReportIds : \E q \in Procs : wr[q].rep[x] # <<>>}
    IN  ReportIdSeq[CHOOSE i \in 1..Len(ReportIdSeq) :
                        /\ ReportIdSeq[i] \notin used
                        /\ \A j \in 1..(i - 1) : ReportIdSeq[j] \in used]

\* INSERT INTO manual_payment_reports (... 'pending' ...) RETURNING *
createManualPaymentReport_insert(p) ==
    /\ pc[p] = "mpr_insert"
    /\ LET r == req[p]
           row == NewReportRow(loc[p].ownerId, r.amount, Or(r.currency, "DOP"),
                               r.reference, r.proofUrl)
       IN  /\ wr' = [wr EXCEPT ![p].rep[NextReportId] = <<row>>]
           /\ Goto(p, "mpr_update", [loc[p] EXCEPT !.report = <<row>>])
    /\ UNCHANGED <<clockVars, dbVars, lockVars, histVars, req, res>>

\* an UPDATE that also ends the period the owner has paid for
ReportedRow_endsPeriod(row) ==
    [row EXCEPT !.status = "pending_verification",
                !.current_period_end = NoTime,
                !.grace_period_end = NoTime]

\* the SET list of createManualPaymentReport's UPDATE applied to the row
ReportedRow(row) == [row EXCEPT !.status = "pending_verification"]

\* UPDATE subscriptions SET status = 'pending_verification' WHERE owner_id = $1
createManualPaymentReport_update(p) ==
    /\ pc[p] = "mpr_update"
    /\ LET o == loc[p].ownerId
       IN  /\ CanLock(p, o)
           /\ wr' = [wr EXCEPT ![p].sub[o] = <<ReportedRow(ViewSub(p, o)[1])>>]
           /\ lock' = [lock EXCEPT ![o] = p]
           /\ Goto(p, "commit",
                   [loc[p] EXCEPT !.resp = Response(201, "created")])
    /\ UNCHANGED <<clockVars, dbVars, repLock, histVars, req, res>>

\* DecideReport_lock without the check of report.status
DecideReport_lock_anyStatus(p, next) ==
    LET r == req[p] IN
    IF ~IsAdmin(r.role)
    THEN /\ Throw(p, 403, "Acceso denegado: solo admin")
         /\ UNCHANGED repLock
    ELSE IF r.reportId \notin DOMAIN reports
    THEN /\ Throw(p, 404, "Reporte no encontrado")
         /\ UNCHANGED repLock
    ELSE /\ CanLockReport(p, r.reportId)
         /\ repLock' = [repLock EXCEPT ![r.reportId] = p]
         /\ LET report == reports[r.reportId]
            IN  Goto(p, next,
                     [loc[p] EXCEPT !.report = <<report>>,
                                    !.ownerId = report.owner_id,
                                    !.ret = "renew_usage"])

\* DecideReport_lock whose SELECT has no FOR UPDATE
DecideReport_lock_plain(p, next) ==
    LET r == req[p] IN
    IF ~IsAdmin(r.role)
    THEN /\ Throw(p, 403, "Acceso denegado: solo admin")
         /\ UNCHANGED repLock
    ELSE IF r.reportId \notin DOMAIN reports
    THEN /\ Throw(p, 404, "Reporte no encontrado")
         /\ UNCHANGED repLock
    ELSE /\ UNCHANGED repLock
         /\ LET report == reports[r.reportId]
            IN  IF report.status # "pending"
                THEN Throw(p, 400, "Este reporte ya fue procesado")
                ELSE Goto(p, next,
                          [loc[p] EXCEPT !.report = <<report>>,
                                         !.ownerId = report.owner_id,
                                         !.ret = "renew_usage"])

\* requireAdmin, BEGIN, SELECT * FROM manual_payment_reports WHERE id = $1 FOR
\* UPDATE, and the status check; decide names the handler's own outcome
DecideReport_lock(p, next) ==
    LET r == req[p] IN
    IF ~IsAdmin(r.role)
    THEN /\ Throw(p, 403, "Acceso denegado: solo admin")
         /\ UNCHANGED repLock
    ELSE IF r.reportId \notin DOMAIN reports
    THEN /\ Throw(p, 404, "Reporte no encontrado")
         /\ UNCHANGED repLock
    ELSE /\ CanLockReport(p, r.reportId)
         /\ repLock' = [repLock EXCEPT ![r.reportId] = p]
         /\ LET report == reports[r.reportId]
            IN  IF report.status # "pending"
                THEN Throw(p, 400, "Este reporte ya fue procesado")
                ELSE Goto(p, next,
                          [loc[p] EXCEPT !.report = <<report>>,
                                         !.ownerId = report.owner_id,
                                         !.ret = "renew_usage"])

approveManualPaymentReport_lock(p) ==
    /\ pc[p] = "apr_lock"
    /\ DecideReport_lock(p, "goc_select")
    /\ UNCHANGED <<clockVars, dbVars, lock, histVars, req, wr, res>>

\* an INSERT that records the default price instead of the reported amount
approveManualPaymentReport_insert_defaultAmount(p) ==
    /\ pc[p] = "apr_insert"
    /\ LET report == loc[p].report[1]
       IN  wr' = [wr EXCEPT ![p].pay =
                     Append(@, PaymentRow(loc[p].ownerId, "manual", 1000,
                                          report.currency, NULL, req[p].reportId))]
    /\ Goto(p, "apr_mark", loc[p])
    /\ UNCHANGED <<clockVars, dbVars, lockVars, histVars, req, res>>

\* INSERT INTO payments (... 'manual' ... provider_payment_id NULL ...)
approveManualPaymentReport_insert(p) ==
    /\ pc[p] = "apr_insert"
    /\ LET report == loc[p].report[1]
       IN  wr' = [wr EXCEPT ![p].pay =
                     Append(@, PaymentRow(loc[p].ownerId, "manual", report.amount,
                                          report.currency, NULL, req[p].reportId))]
    /\ Goto(p, "apr_mark", loc[p])
    /\ UNCHANGED <<clockVars, dbVars, lockVars, histVars, req, res>>

\* UPDATE manual_payment_reports SET status = 'approved', approved_by = $2,
\* decided_at = NOW()
approveManualPaymentReport_mark(p) ==
    /\ pc[p] = "apr_mark"
    /\ LET id == req[p].reportId
       IN  wr' = [wr EXCEPT ![p].rep[id] =
                     <<[ViewReport(p, id)[1] EXCEPT !.status = "approved",
                                                    !.approved_by = req[p].userId,
                                                    !.decided_at = "set"]>>]
    /\ Goto(p, "commit", [loc[p] EXCEPT !.resp = Response(200, "approved")])
    /\ UNCHANGED <<clockVars, dbVars, lockVars, histVars, req, res>>

\* a rejection that goes on to the renewal as the approval does
rejectManualPaymentReport_lock_renewing(p) ==
    /\ pc[p] = "rej_lock"
    /\ DecideReport_lock(p, "goc_select")
    /\ UNCHANGED <<clockVars, dbVars, lock, histVars, req, wr, res>>

rejectManualPaymentReport_lock(p) ==
    /\ pc[p] = "rej_lock"
    /\ DecideReport_lock(p, "rej_mark")
    /\ UNCHANGED <<clockVars, dbVars, lock, histVars, req, wr, res>>

\* UPDATE manual_payment_reports SET status = 'rejected', rejected_by = $2,
\* decided_at = NOW()
rejectManualPaymentReport_mark(p) ==
    /\ pc[p] = "rej_mark"
    /\ LET id == req[p].reportId
       IN  wr' = [wr EXCEPT ![p].rep[id] =
                     <<[ViewReport(p, id)[1] EXCEPT !.status = "rejected",
                                                    !.rejected_by = req[p].userId,
                                                    !.decided_at = "set"]>>]
    /\ Goto(p, "commit", [loc[p] EXCEPT !.resp = Response(200, "rejected")])
    /\ UNCHANGED <<clockVars, dbVars, lockVars, histVars, req, res>>

\* requireAdmin, the ownerId check, BEGIN
adminActivateSubscription_begin(p) ==
    /\ pc[p] = "adm_begin"
    /\ LET r == req[p]
       IN  IF ~IsAdmin(r.role)
           THEN /\ Throw(p, 403, "Acceso denegado: solo admin")
                /\ UNCHANGED res
           ELSE IF r.ownerId = NULL THEN Reply(p, Response(400, "ownerId requerido"))
           ELSE /\ Goto(p, "goc_select",
                        [loc[p] EXCEPT !.ownerId = r.ownerId, !.ret = "renew_usage"])
                /\ UNCHANGED res
    /\ UNCHANGED <<clockVars, dbVars, lockVars, histVars, req, wr>>

-----------------------------------------------------------------------------
(* Recurring-subscription rail: creation and confirmation *)

VALID_PLAN_CODES == {"basic_1", "basic_2", "pro", "premium"}

\* the period of paypalConfirmSubscription when the provider names no next
\* billing time, and its grace, in days
ConfirmPeriodDays == 30
ConfirmGraceDays == 5

\* the checks of paypalCreateSubscription up to the provider call: the plan
\* code, then the owner's usage against the tier computeMonthlyPriceDop
\* selected for that usage
paypalCreateSubscription_check(p) ==
    /\ pc[p] = "create_check"
    /\ LET r == req[p]
           code == r.planCode
       IN  IF r.userId = NULL THEN Reply(p, Response(401, "Authentication required"))
           ELSE IF ~IsAdminOrOwner(r.role) THEN Reply(p, Response(403, "Acceso denegado"))
           ELSE IF code \notin VALID_PLAN_CODES
                THEN Reply(p, Response(400, "planCode invalido"))
           ELSE LET u == usage[r.userId]
                    pricing == computeMonthlyPriceDop(u)
                    tierLimits == pricing.tier
                IN  IF pricing.isOverLimit
                    THEN Reply(p, Response(400, "Tu cuenta excede los limites del plan"))
                    ELSE IF /\ tierLimits # NoTier
                            /\ \/ Max(0, u.shopCount) > tierLimits.shops
                               \/ Max(0, u.professionalCount) > tierLimits.professionals
                    THEN Reply(p, Response(400, "Tu uso actual excede el plan seleccionado"))
                    ELSE /\ Goto(p, "create_provider", [loc[p] EXCEPT !.ownerId = r.userId])
                         /\ UNCHANGED res
    /\ UNCHANGED <<clockVars, dbVars, lockVars, histVars, req, wr>>

\* POST /v1/billing/subscriptions, the checks of its answer, BEGIN
paypalCreateSubscription_provider(p) ==
    /\ pc[p] = "create_provider"
    /\ LET r == req[p]
       IN  IF ~r.ppOk
           THEN /\ Throw(p, 502, "Error creando suscripcion de PayPal")
                /\ UNCHANGED res
           ELSE IF r.ppSubscriptionId = NULL
           THEN Reply(p, Response(502, "Respuesta invalida de PayPal creando suscripcion"))
           ELSE /\ Goto(p, "goc_select", [loc[p] EXCEPT !.ret = "create_update"])
                /\ UNCHANGED res
    /\ UNCHANGED <<clockVars, dbVars, lockVars, histVars, req, wr>>

\* SET billing_provider = 'paypal', paypal_subscription_id = $2,
\* paypal_subscription_status = $3, pending_plan_code = $4,
\* pending_plan_effective_at = NULL
createLinkRow(row, subscriptionId, status, code) ==
    [row EXCEPT !.billing_provider = "paypal",
                !.paypal_subscription_id = subscriptionId,
                !.paypal_subscription_status = status,
                !.pending_plan_code = code,
                !.pending_plan_effective_at = NoTime]

\* UPDATE subscriptions ... WHERE owner_id = $1, then COMMIT
paypalCreateSubscription_update(p) ==
    /\ pc[p] = "create_update"
    /\ LET o == loc[p].ownerId
           r == req[p]
       IN  /\ CanLock(p, o)
           /\ lock' = [lock EXCEPT ![o] = p]
           /\ wr' = [wr EXCEPT ![p].sub[o] =
                        <<createLinkRow(ViewSub(p, o)[1], r.ppSubscriptionId,
                                        r.ppStatus, r.planCode)>>]
    /\ Goto(p, "commit", [loc[p] EXCEPT !.resp = Response(200, "approvalUrl")])
    /\ UNCHANGED <<clockVars, dbVars, repLock, histVars, req, res>>

\* auth checks, GET /v1/billing/subscriptions/:id, the checks of its answer, BEGIN
paypalConfirmSubscription_fetch(p) ==
    /\ pc[p] = "confirm_fetch"
    /\ LET r == req[p]
       IN  IF r.userId = NULL THEN Reply(p, Response(401, "Authentication required"))
           ELSE IF ~IsAdminOrOwner(r.role) THEN Reply(p, Response(403, "Acceso denegado"))
           ELSE IF r.subscriptionId = NULL
                THEN Reply(p, Response(400, "subscriptionId requerido"))
           ELSE IF ~r.ppOk
                THEN /\ Throw(p, 502, "Error consultando suscripcion de PayPal")
                     /\ UNCHANGED res
           ELSE IF r.ppStatus = NULL
                THEN Reply(p, Response(502, "Respuesta invalida de PayPal"))
           ELSE /\ Goto(p, "goc_select",
                        [loc[p] EXCEPT !.ownerId = r.userId, !.ret = "confirm_update"])
                /\ UNCHANGED res
    /\ UNCHANGED <<clockVars, dbVars, lockVars, histVars, req, wr>>

\* SET billing_provider = 'paypal', paypal_subscription_status = $2
confirmStatusRow(row, status) ==
    [row EXCEPT !.billing_provider = "paypal",
                !.paypal_subscription_status = status]

\* resolvedPlanCode with the pending plan ahead of the provider's plan
resolvedPlanCode_pendingFirst(planCodeFromPaypal, sub) ==
    Or(Or(sub.pending_plan_code, planCodeFromPaypal), sub.plan_code)

\* planCodeFromPaypal || sub.pending_plan_code || sub.plan_code || null
resolvedPlanCode(planCodeFromPaypal, sub) ==
    Or(Or(planCodeFromPaypal, sub.pending_plan_code), sub.plan_code)

\* nextBilling when it is a valid date, else now + 30 days
confirmPeriodEnd(nextBilling, clock) ==
    IF nextBilling # NoTime THEN nextBilling ELSE clock + ConfirmPeriodDays

\* the UPDATE of an ACTIVE confirmation
confirmActiveRow(row, planCode, status, clock, periodEnd, graceEnd) ==
    [row EXCEPT !.status = "active",
                !.plan_code = Or(planCode, row.plan_code),
                !.billing_provider = "paypal",
                !.paypal_subscription_status = status,
                !.pending_plan_code = NULL,
                !.pending_plan_effective_at = NoTime,
                !.current_period_start = clock,
                !.current_period_end = periodEnd,
                !.grace_period_end = graceEnd]

\* confirmUpdateRow that counts the grace period from the default period end
confirmUpdateRow_graceFromNow(row, sub, r, clock) ==
    IF r.ppStatus # "ACTIVE"
    THEN confirmStatusRow(row, r.ppStatus)
    ELSE confirmActiveRow(row, resolvedPlanCode(r.ppPlanCode, sub), r.ppStatus, clock,
                          confirmPeriodEnd(r.nextBilling, clock),
                          clock + ConfirmPeriodDays + ConfirmGraceDays)

\* confirmUpdateRow that treats every provider status as ACTIVE
confirmUpdateRow_anyStatus(row, sub, r, clock) ==
    LET periodEnd == confirmPeriodEnd(r.nextBilling, clock)
    IN  confirmActiveRow(row, resolvedPlanCode(r.ppPlanCode, sub), r.ppStatus, clock,
                         periodEnd, periodEnd + ConfirmGraceDays)

\* the row the handler's UPDATE leaves: the provider's status alone unless
\* that status is ACTIVE
confirmUpdateRow(row, sub, r, clock) ==
    IF r.ppStatus # "ACTIVE"
    THEN confirmStatusRow(row, r.ppStatus)
    ELSE LET periodEnd == confirmPeriodEnd(r.nextBilling, clock)
         IN  confirmActiveRow(row, resolvedPlanCode(r.ppPlanCode, sub), r.ppStatus,
                              clock, periodEnd, periodEnd + ConfirmGraceDays)

\* an UPDATE that does not compare sub.paypal_subscription_id
paypalConfirmSubscription_update_anyId(p) ==
    /\ pc[p] = "confirm_update"
    /\ LET o == loc[p].ownerId
           r == req[p]
           sub == loc[p].sub[1]
       IN  /\ CanLock(p, o)
           /\ lock' = [lock EXCEPT ![o] = p]
           /\ wr' = [wr EXCEPT ![p].sub[o] =
                        <<confirmUpdateRow(ViewSub(p, o)[1], sub, r, now)>>]
           /\ Goto(p, "commit", [loc[p] EXCEPT !.clock = now,
                                               !.resp = Response(200, "success")])
    /\ UNCHANGED <<clockVars, dbVars, repLock, histVars, req, res>>

\* the check of sub.paypal_subscription_id, then the UPDATE and COMMIT
paypalConfirmSubscription_update(p) ==
    /\ pc[p] = "confirm_update"
    /\ LET o == loc[p].ownerId
           r == req[p]
           sub == loc[p].sub[1]
       IN  IF Or(sub.paypal_subscription_id, "") # r.subscriptionId
           THEN /\ Throw(p, 400, "subscriptionId no coincide con el owner")
                /\ UNCHANGED <<wr, lock>>
           ELSE /\ CanLock(p, o)
                /\ lock' = [lock EXCEPT ![o] = p]
                /\ wr' = [wr EXCEPT ![p].sub[o] =
                             <<confirmUpdateRow(ViewSub(p, o)[1], sub, r, now)>>]
                /\ Goto(p, "commit", [loc[p] EXCEPT !.clock = now,
                                                    !.resp = Response(200, "success")])
    /\ UNCHANGED <<clockVars, dbVars, repLock, histVars, req, res>>

SubscribeStep(p) ==
    \/ paypalCreateSubscription_check(p)
    \/ paypalCreateSubscription_provider(p)
    \/ paypalCreateSubscription_update(p)
    \/ paypalConfirmSubscription_fetch(p)
    \/ paypalConfirmSubscription_update(p)

-----------------------------------------------------------------------------
(* Recurring-subscription rail: cancel and change of plan *)

\* paypalCancelSubscription and paypalChangeSubscriptionPlan send no BEGIN:
\* each of their statements is its own transaction.  A statement sees the
\* committed rows and waits while another transaction holds the row's lock.

\* SELECT * FROM subscriptions WHERE owner_id = $1 LIMIT 1, outside a transaction
getOrCreateOwnerSubscription_autoSelect(p) ==
    /\ pc[p] = "goca_select"
    /\ LET o == loc[p].ownerId
       IN  IF o \in DOMAIN subs
           THEN Goto(p, loc[p].ret, [loc[p] EXCEPT !.sub = <<subs[o]>>])
           ELSE Goto(p, "goca_insert", [loc[p] EXCEPT !.clock = now])
    /\ UNCHANGED <<clockVars, dbVars, lockVars, histVars, req, wr, res>>

\* INSERT INTO subscriptions ... RETURNING *, committed at once; a duplicate
\* key rejects and the handler's catch answers 500
getOrCreateOwnerSubscription_autoInsert(p) ==
    /\ pc[p] = "goca_insert"
    /\ LET o == loc[p].ownerId
           row == NewSubscriptionRow(loc[p].clock)
       IN  /\ CanLock(p, o)
           /\ IF UniqueOwnerKeyConflict(o)
              THEN /\ Reply(p, Response(500, "duplicate key"))
                   /\ UNCHANGED subs
              ELSE /\ subs' = [x \in DOMAIN subs \cup {o} |->
                                  IF x = o THEN row ELSE subs[x]]
                   /\ Goto(p, loc[p].ret, [loc[p] EXCEPT !.sub = <<row>>])
                   /\ UNCHANGED res
    /\ UNCHANGED <<clockVars, payments, reports, notifs, appRows, lockVars, histVars,
                   req, wr>>

\* auth checks of paypalCancelSubscription
paypalCancelSubscription_begin(p) ==
    /\ pc[p] = "cancel_begin"
    /\ LET r == req[p]
       IN  IF r.userId = NULL THEN Reply(p, Response(401, "Authentication required"))
           ELSE IF ~IsAdminOrOwner(r.role) THEN Reply(p, Response(403, "Acceso denegado"))
           ELSE /\ Goto(p, "goca_select",
                        [loc[p] EXCEPT !.ownerId = r.userId, !.ret = "cancel_provider"])
                /\ UNCHANGED res
    /\ UNCHANGED <<clockVars, dbVars, lockVars, histVars, req, wr>>

\* the check of sub.paypal_subscription_id, then POST .../cancel
paypalCancelSubscription_provider(p) ==
    /\ pc[p] = "cancel_provider"
    /\ IF loc[p].sub[1].paypal_subscription_id = NULL
       THEN Reply(p, Response(400, "No hay suscripcion PayPal activa"))
       ELSE IF ~req[p].ppOk
       THEN Reply(p, Response(502, "Error cancelando suscripcion PayPal"))
       ELSE /\ Goto(p, "cancel_update", loc[p])
            /\ UNCHANGED res
    /\ UNCHANGED <<clockVars, dbVars, lockVars, histVars, req, wr>>

\* a cancel that also ends the paid period
cancelRow_endsPeriod(row) ==
    [row EXCEPT !.paypal_subscription_status = "CANCELLED",
                !.current_period_end = row.current_period_start,
                !.grace_period_end = row.current_period_start]

\* SET paypal_subscription_status = 'CANCELLED'
cancelRow(row) == [row EXCEPT !.paypal_subscription_status = "CANCELLED"]

\* UPDATE subscriptions ... WHERE owner_id = $1, committed at once
paypalCancelSubscription_update(p) ==
    /\ pc[p] = "cancel_update"
    /\ LET o == loc[p].ownerId
       IN  /\ CanLock(p, o)
           /\ subs' = [subs EXCEPT ![o] = cancelRow(@)]
    /\ Reply(p, Response(200, "success"))
    /\ UNCHANGED <<clockVars, payments, reports, notifs, appRows, lockVars, histVars,
                   req, wr>>

\* auth checks and the plan code check of paypalChangeSubscriptionPlan
paypalChangeSubscriptionPlan_begin(p) ==
    /\ pc[p] = "change_begin"
    /\ LET r == req[p]
       IN  IF r.userId = NULL THEN Reply(p, Response(401, "Authentication required"))
           ELSE IF ~IsAdminOrOwner(r.role) THEN Reply(p, Response(403, "Acceso denegado"))
           ELSE IF r.planCode \notin VALID_PLAN_CODES
                THEN Reply(p, Response(400, "planCode invalido"))
           ELSE /\ Goto(p, "goca_select",
                        [loc[p] EXCEPT !.ownerId = r.userId, !.ret = "change_provider"])
                /\ UNCHANGED res
    /\ UNCHANGED <<clockVars, dbVars, lockVars, histVars, req, wr>>

\* the check of sub.paypal_subscription_id, then POST .../revise
paypalChangeSubscriptionPlan_provider(p) ==
    /\ pc[p] = "change_provider"
    /\ IF loc[p].sub[1].paypal_subscription_id = NULL
       THEN Reply(p, Response(400, "No hay suscripcion PayPal existente"))
       ELSE IF ~req[p].ppOk
       THEN Reply(p, Response(502, "Error cambiando plan de suscripcion PayPal"))
       ELSE /\ Goto(p, "change_update", loc[p])
            /\ UNCHANGED res
    /\ UNCHANGED <<clockVars, dbVars, lockVars, histVars, req, wr>>

\* a change of plan that takes effect at once
changePlanRow_immediate(row, code) ==
    [row EXCEPT !.plan_code = code, !.pending_plan_code = NULL,
                !.pending_plan_effective_at = NoTime]

\* SET pending_plan_code = $2, pending_plan_effective_at = NULL
changePlanRow(row, code) ==
    [row EXCEPT !.pending_plan_code = code, !.pending_plan_effective_at = NoTime]

\* UPDATE subscriptions ... WHERE owner_id = $1, committed at once
paypalChangeSubscriptionPlan_update(p) ==
    /\ pc[p] = "change_update"
    /\ LET o == loc[p].ownerId
       IN  /\ CanLock(p, o)
           /\ subs' = [subs EXCEPT ![o] = changePlanRow(@, req[p].planCode)]
    /\ Reply(p, Response(200, "success"))
    /\ UNCHANGED <<clockVars, payments, reports, notifs, appRows, lockVars, histVars,
                   req, wr>>

ManageStep(p) ==
    \/ getOrCreateOwnerSubscription_autoSelect(p)
    \/ getOrCreateOwnerSubscription_autoInsert(p)
    \/ paypalCancelSubscription_begin(p)
    \/ paypalCancelSubscription_provider(p)
    \/ paypalCancelSubscription_update(p)
    \/ paypalChangeSubscriptionPlan_begin(p)
    \/ paypalChangeSubscriptionPlan_provider(p)
    \/ paypalChangeSubscriptionPlan_update(p)

-----------------------------------------------------------------------------
(* The owner's summary *)

\* role.includes('admin') || (uid != null && String(uid) === String(ownerId))
canAccessOwner(r, ownerId) ==
    IsAdmin(r.role) \/ (r.userId # NULL /\ r.userId = ownerId)

\* the checks of getOwnerSubscriptionSummary; it sends no BEGIN
getOwnerSubscriptionSummary_begin(p) ==
    /\ pc[p] = "summary_begin"
    /\ LET r == req[p]
       IN  IF r.ownerId = NULL THEN Reply(p, Response(400, "ownerId requerido"))
           ELSE IF r.userId = NULL
                THEN Reply(p, Response(401, "Authentication required"))
           ELSE IF ~canAccessOwner(r, r.ownerId)
                THEN Reply(p, Response(403, "Acceso denegado"))
           ELSE /\ Goto(p, "goca_select",
                        [loc[p] EXCEPT !.ownerId = r.ownerId, !.ret = "summary_reply"])
                /\ UNCHANGED res
    /\ UNCHANGED <<clockVars, dbVars, lockVars, histVars, req, wr>>

\* computeOwnerUsageCounts, computeSubscriptionState(sub), and the answer
getOwnerSubscriptionSummary_reply(p) ==
    /\ pc[p] = "summary_reply"
    /\ LET state == computeSubscriptionState(loc[p].sub[1], now)
       IN  Reply(p, [status |-> 200,
                     message |-> IF state.isActive THEN "active"
                                 ELSE IF state.isInGrace THEN "grace" ELSE "blocked",
                     details |-> [ownerId |-> loc[p].ownerId,
                                  periodEnd |-> state.periodEnd,
                                  graceEnd |-> state.graceEnd]])
    /\ UNCHANGED <<clockVars, dbVars, lockVars, histVars, req, wr>>

-----------------------------------------------------------------------------
(* Recurring-subscription rail: webhook *)

\* the event types of the model, split at the dots
EventTokens ==
    [et \in {"BILLING.SUBSCRIPTION.ACTIVATED", "BILLING.SUBSCRIPTION.PAYMENT.FAILED",
             "BILLING.SUBSCRIPTION.PAYMENT.SUCCEEDED", "PAYMENT.SALE.COMPLETED", "PAYMENT.SALE.DENIED",
             "PAYMENT.CAPTURE.COMPLETED", "CUSTOMER.DISPUTE.CREATED",
             "PAYMENT.SALE.PENDING", "PAYMENT.SALE.REFUNDED"} |->
        CASE et = "BILLING.SUBSCRIPTION.ACTIVATED" -> <<"BILLING", "SUBSCRIPTION", "ACTIVATED">>
          [] et = "BILLING.SUBSCRIPTION.PAYMENT.FAILED" ->
                 <<"BILLING", "SUBSCRIPTION", "PAYMENT", "FAILED">>
          [] et = "BILLING.SUBSCRIPTION.PAYMENT.SUCCEEDED" ->
                 <<"BILLING", "SUBSCRIPTION", "PAYMENT", "SUCCEEDED">>
          [] et = "PAYMENT.SALE.COMPLETED" -> <<"PAYMENT", "SALE", "COMPLETED">>
          [] et = "PAYMENT.SALE.DENIED" -> <<"PAYMENT", "SALE", "DENIED">>
          [] et = "PAYMENT.CAPTURE.COMPLETED" -> <<"PAYMENT", "CAPTURE", "COMPLETED">>
          [] et = "PAYMENT.SALE.PENDING" -> <<"PAYMENT", "SALE", "PENDING">>
          [] et = "PAYMENT.SALE.REFUNDED" -> <<"PAYMENT", "SALE", "REFUNDED">>
          [] OTHER -> <<"CUSTOMER", "DISPUTE", "CREATED">>]

\* eventType.includes(word), for a word that is one of the dot-separated parts
Includes(eventType, word) ==
    \E i \in 1..Len(EventTokens[eventType]) : EventTokens[eventType][i] = word

\* eventType.startsWith('BILLING.SUBSCRIPTION.')
IsSubscriptionEvent(eventType) ==
    LET t == EventTokens[eventType]
    IN  Len(t) >= 3 /\ t[1] = "BILLING" /\ t[2] = "SUBSCRIPTION"

isPaymentSuccessEvent(eventType) ==
    \/ eventType = "BILLING.SUBSCRIPTION.PAYMENT.SUCCEEDED"
    \/ eventType = "PAYMENT.CAPTURE.COMPLETED"
    \/ eventType = "PAYMENT.SALE.COMPLETED"
    \/ /\ Includes(eventType, "PAYMENT")
       /\ ~Includes(eventType, "FAILED")
       /\ ~Includes(eventType, "DENIED")
       /\ ~Includes(eventType, "REVERSED")
       /\ ~Includes(eventType, "REFUNDED")

\* resource.billing_agreement_id || resource.id || resource.subscription_id
EventSubscriptionId(event) ==
    Or(Or(event.resource.billing_agreement_id, event.resource.id),
       event.resource.subscription_id)

\* resource.id || resource.sale_id || resource.transaction_id
EventTransactionId(event) ==
    Or(Or(event.resource.id, event.resource.sale_id), event.resource.transaction_id)

\* PaymentExists that looks the id up under the one-off rail's provider name
PaymentExists_otherRail(rows, provider, providerPaymentId) ==
    \E i \in 1..Len(rows) :
        /\ rows[i].provider = "paypal"
        /\ rows[i].provider_payment_id = providerPaymentId

\* SELECT 1 FROM payments WHERE provider = $p AND provider_payment_id = $1 LIMIT 1
PaymentExists(rows, provider, providerPaymentId) ==
    \E i \in 1..Len(rows) :
        /\ rows[i].provider = provider
        /\ rows[i].provider_payment_id = providerPaymentId

\* a routing that takes every synced event on to the renewal
WebhookAfterSync_always(event) == "wh_plansync"

\* where the handler continues after the row is locked and the status synced
WebhookAfterSync(event) ==
    IF isPaymentSuccessEvent(event.event_type) /\ EventTransactionId(event) # NULL
    THEN "wh_plansync" ELSE "commit"

\* a verification that reports SUCCESS for every delivery
verifyPaypalWebhookSignature_trusting(r) ==
    [threw |-> FALSE, status |-> 0, message |-> "", ok |-> TRUE]

\* what verifyPaypalWebhookSignature does with a delivery: it throws when
\* PAYPAL_WEBHOOK_ID is not set, when a transmission header is missing or when
\* the provider's verification endpoint answers not ok, and else returns
\* whether verification_status is SUCCESS
verifyPaypalWebhookSignature(r) ==
    CASE r.verified = "NO_WEBHOOK_ID" ->
             [threw |-> TRUE, status |-> 500, ok |-> FALSE,
              message |-> "Falta PAYPAL_WEBHOOK_ID para verificar webhooks de PayPal"]
      [] r.verified = "NO_HEADERS" ->
             [threw |-> TRUE, status |-> 400, ok |-> FALSE,
              message |-> "Headers de webhook PayPal incompletos"]
      [] r.verified = "ERROR" ->
             [threw |-> TRUE, status |-> 502, ok |-> FALSE,
              message |-> "No se pudo verificar firma de webhook PayPal"]
      [] OTHER ->
             [threw |-> FALSE, status |-> 0, message |-> "", ok |-> r.verified = "SUCCESS"]

\* verifyPaypalWebhookSignature, the subscriptionId check, BEGIN
paypalWebhook_verify(p) ==
    /\ pc[p] = "wh_verify"
    /\ LET r == req[p]
           v == verifyPaypalWebhookSignature(r)
       IN  IF v.threw
           THEN /\ Throw(p, v.status, v.message)
                /\ UNCHANGED res
           ELSE IF ~v.ok
           THEN Reply(p, Response(400, "Firma de webhook invalida"))
           ELSE IF EventSubscriptionId(r.event) = NULL
           THEN Reply(p, Response(200, "received"))
           ELSE /\ Goto(p, "wh_lock", loc[p])
                /\ UNCHANGED res
    /\ UNCHANGED <<clockVars, dbVars, lockVars, histVars, req, wr>>

\* paypalWebhook_lock whose SELECT has no FOR UPDATE
paypalWebhook_lock_plain(p) ==
    /\ pc[p] = "wh_lock"
    /\ LET event == req[p].event
           subscriptionId == EventSubscriptionId(event)
           found == {o \in DOMAIN subs : subs[o].paypal_subscription_id = subscriptionId}
       IN  IF found = {}
           THEN Throw(p, 200, "received")
           ELSE \E o \in found :
                  Goto(p, IF IsSubscriptionEvent(event.event_type)
                          THEN "wh_status" ELSE WebhookAfterSync(event),
                       [loc[p] EXCEPT !.ownerId = o, !.sub = <<subs[o]>>,
                                      !.resp = Response(200, "received")])
    /\ UNCHANGED <<clockVars, dbVars, lockVars, histVars, req, wr, res>>

\* SELECT * FROM subscriptions WHERE paypal_subscription_id = $1 LIMIT 1 FOR UPDATE
paypalWebhook_lock(p) ==
    /\ pc[p] = "wh_lock"
    /\ LET event == req[p].event
           subscriptionId == EventSubscriptionId(event)
           found == {o \in DOMAIN subs : subs[o].paypal_subscription_id = subscriptionId}
       IN  IF found = {}
           THEN /\ Throw(p, 200, "received")
                /\ UNCHANGED lock
           ELSE \E o \in found :
                  /\ CanLock(p, o)
                  /\ lock' = [lock EXCEPT ![o] = p]
                  /\ Goto(p, IF IsSubscriptionEvent(event.event_type)
                             THEN "wh_status" ELSE WebhookAfterSync(event),
                          [loc[p] EXCEPT !.ownerId = o, !.sub = <<subs[o]>>,
                                         !.resp = Response(200, "received")])
    /\ UNCHANGED <<clockVars, dbVars, repLock, histVars, req, wr, res>>

\* UPDATE subscriptions SET paypal_subscription_status = $2, billing_provider = 'paypal'
paypalWebhook_status(p) ==
    /\ pc[p] = "wh_status"
    /\ LET o == loc[p].ownerId
           event == req[p].event
           newStatus == Or(event.resource.status, event.event_type)
       IN  /\ wr' = [wr EXCEPT ![p].sub[o] =
                        <<[ViewSub(p, o)[1] EXCEPT !.paypal_subscription_status = newStatus,
                                                   !.billing_provider = "paypal"]>>]
           /\ Goto(p, WebhookAfterSync(event), loc[p])
    /\ UNCHANGED <<clockVars, dbVars, lockVars, histVars, req, res>>

\* GET /v1/billing/subscriptions/:id and, when its plan id maps to a plan code,
\* UPDATE subscriptions SET plan_code = COALESCE($2, plan_code); best effort
paypalWebhook_plansync(p) ==
    /\ pc[p] = "wh_plansync"
    /\ LET o == loc[p].ownerId
           planCodeFromPaypal == IF req[p].ppOk THEN req[p].ppPlanCode ELSE NULL
       IN  wr' = IF planCodeFromPaypal # NULL
                 THEN [wr EXCEPT ![p].sub[o] =
                          <<[ViewSub(p, o)[1] EXCEPT !.plan_code = planCodeFromPaypal]>>]
                 ELSE wr
    /\ Goto(p, "wh_exists", loc[p])
    /\ UNCHANGED <<clockVars, dbVars, lockVars, histVars, req, res>>

\* the idempotency check on (provider, provider_payment_id)
paypalWebhook_exists(p) ==
    /\ pc[p] = "wh_exists"
    /\ LET exists == PaymentExists(ViewPayments(p), "paypal_subscription",
                                   EventTransactionId(req[p].event))
       IN  IF exists
           THEN Goto(p, "commit", [loc[p] EXCEPT !.exists = TRUE])
           ELSE Goto(p, "goc_select", [loc[p] EXCEPT !.ret = "renew_usage"])
    /\ UNCHANGED <<clockVars, dbVars, lockVars, histVars, req, wr, res>>

\* INSERT INTO payments (... 'paypal_subscription' ... transactionId ...)
paypalWebhook_insert(p) ==
    /\ pc[p] = "wh_insert"
    /\ wr' = [wr EXCEPT ![p].pay =
                 Append(@, PaymentRow(loc[p].ownerId, "paypal_subscription", 20, "USD",
                                      EventTransactionId(req[p].event), NULL))]
    /\ Goto(p, "wh_activate", loc[p])
    /\ UNCHANGED <<clockVars, dbVars, lockVars, histVars, req, res>>

\* UPDATE subscriptions SET status = 'active', billing_provider = 'paypal'
paypalWebhook_activate(p) ==
    /\ pc[p] = "wh_activate"
    /\ LET o == loc[p].ownerId
       IN  wr' = [wr EXCEPT ![p].sub[o] =
                     <<[ViewSub(p, o)[1] EXCEPT !.status = "active",
                                                !.billing_provider = "paypal"]>>]
    /\ Goto(p, "commit", [loc[p] EXCEPT !.resp = Response(200, "received, renewed")])
    /\ UNCHANGED <<clockVars, dbVars, lockVars, histVars, req, res>>

-----------------------------------------------------------------------------
(* Enforcement Gate *)

\* what the gate did: the error it threw (err.status, err.details) or the
\* {ownerId, subscription, state} it returned
GateThrew(status, details) ==
    [threw |-> TRUE, status |-> status, details |-> details,
     ownerId |-> NULL, subscription |-> <<>>, state |-> <<>>]

GateReturned(ownerId, subscription, state) ==
    [threw |-> FALSE, status |-> 0, details |-> NoDetails,
     ownerId |-> ownerId, subscription |-> <<subscription>>, state |-> <<state>>]

\* the caller's catch around the gate without its return: the route goes on
GateFails_proceeds(p, l, status, message, details) ==
    Goto(p, "gated_write", [l EXCEPT !.gate = <<GateThrew(status, details)>>])

\* the caller's catch around the gate: ROLLBACK, then res.status(e.status || 500)
GateFails(p, l, status, message, details) ==
    Goto(p, "rollback", [l EXCEPT !.gate = <<GateThrew(status, details)>>,
                                  !.resp = Response(status, message)])

\* GateDecide that lets only the Active state through
GateDecide_unlessActive(p, l) ==
    LET state == l.gate[1].state[1]
    IN  IF ~state.isActive
        THEN GateFails(p, l, 402, "plan vencido",
                       [ownerId |-> l.ownerId, periodEnd |-> state.periodEnd,
                        graceEnd |-> state.graceEnd])
        ELSE Goto(p, "gated_write", l)

\* if (state.isBlocked) throw 402 with details; else return
GateDecide(p, l) ==
    LET state == l.gate[1].state[1]
    IN  IF state.isBlocked
        THEN GateFails(p, l, 402, "plan vencido",
                       [ownerId |-> l.ownerId, periodEnd |-> state.periodEnd,
                        graceEnd |-> state.graceEnd])
        ELSE Goto(p, "gated_write", l)

\* toISOString().slice(0, 10): the UTC calendar day of a time
DayKey(t) == t

\* SELECT owner_id FROM barber_shops WHERE id = $1 AND deleted_at IS NULL
enforceShopSubscriptionForBooking_shop(p) ==
    /\ pc[p] = "gate_shop"
    /\ LET shopId == req[p].shopId
       IN  IF shopId \notin DOMAIN shops
           THEN GateFails(p, loc[p], 404, "Barberia no encontrada", NoDetails)
           ELSE IF shops[shopId] = NULL
           THEN GateFails(p, loc[p], 409, "La barberia no tiene dueno asignado", NoDetails)
           ELSE Goto(p, "goc_select",
                     [loc[p] EXCEPT !.ownerId = shops[shopId], !.ret = "gate_state"])
    /\ UNCHANGED <<clockVars, dbVars, lockVars, histVars, req, wr, res>>

\* if (ownerId == null) throw 400
enforceOwnerSubscriptionForManagement_owner(p) ==
    /\ pc[p] = "gate_owner"
    /\ IF req[p].ownerId = NULL
       THEN GateFails(p, loc[p], 400, "ownerId requerido", NoDetails)
       ELSE Goto(p, "goc_select",
                 [loc[p] EXCEPT !.ownerId = req[p].ownerId, !.ret = "gate_state"])
    /\ UNCHANGED <<clockVars, dbVars, lockVars, histVars, req, wr, res>>

\* enforceSubscription_state without the comparison of lastKey with todayKey
enforceSubscription_state_everyCall(p) ==
    /\ pc[p] = "gate_state"
    /\ LET subscription == loc[p].sub[1]
           state == computeSubscriptionState(subscription, now)
           l == [loc[p] EXCEPT !.gate = <<GateReturned(loc[p].ownerId, subscription, state)>>]
       IN  IF state.periodEnd = NoTime \/ state.isActive
           THEN GateDecide(p, l)
           ELSE Goto(p, "notify_insert", l)
    /\ UNCHANGED <<clockVars, dbVars, lockVars, histVars, req, wr, res>>

\* state = computeSubscriptionState(subscription), then the head of
\* ensureDailySubscriptionExpiredNotification up to its INSERT
enforceSubscription_state(p) ==
    /\ pc[p] = "gate_state"
    /\ LET subscription == loc[p].sub[1]
           state == computeSubscriptionState(subscription, now)
           l == [loc[p] EXCEPT !.gate = <<GateReturned(loc[p].ownerId, subscription, state)>>]
           lastAlert == parsePgTimestamp(subscription.last_alert_sent_at)
       IN  IF \/ state.periodEnd = NoTime
              \/ state.isActive
              \/ (lastAlert # NoTime /\ DayKey(lastAlert) = DayKey(state.now))
           THEN GateDecide(p, l)
           ELSE Goto(p, "notify_insert", l)
    /\ UNCHANGED <<clockVars, dbVars, lockVars, histVars, req, wr, res>>

\* INSERT INTO notifications (... 'SUBSCRIPTION_EXPIRED' ...)
ensureDailySubscriptionExpiredNotification_insert(p) ==
    /\ pc[p] = "notify_insert"
    /\ LET state == loc[p].gate[1].state[1]
       IN  wr' = [wr EXCEPT ![p].notif =
                     Append(@, [user_id |-> loc[p].ownerId,
                                type |-> "SUBSCRIPTION_EXPIRED",
                                day |-> DayKey(now),
                                periodEnd |-> state.periodEnd,
                                graceEnd |-> state.graceEnd])]
    /\ Goto(p, "notify_update", loc[p])
    /\ UNCHANGED <<clockVars, dbVars, lockVars, histVars, req, res>>

\* UPDATE subscriptions SET last_alert_sent_at = NOW() WHERE owner_id = $1
ensureDailySubscriptionExpiredNotification_update(p) ==
    /\ pc[p] = "notify_update"
    /\ LET o == loc[p].ownerId
       IN  /\ CanLock(p, o)
           /\ lock' = [lock EXCEPT ![o] = p]
           /\ wr' = [wr EXCEPT ![p].sub[o] =
                        <<[ViewSub(p, o)[1] EXCEPT !.last_alert_sent_at = now]>>]
    /\ GateDecide(p, loc[p])
    /\ UNCHANGED <<clockVars, dbVars, repLock, histVars, req, res>>

\* what the gate of a transaction did, as far as a written row remembers it
GateOutcome(gate) ==
    IF gate = <<>> THEN "none"
    ELSE IF gate[1].threw THEN "threw"
    ELSE IF gate[1].state[1].isBlocked THEN "Blocked"
    ELSE IF gate[1].state[1].isInGrace THEN "Grace"
    ELSE "Active"

\* the mutating statements of the gated route, after the gate returned
gatedOperation_write(p) ==
    /\ pc[p] = "gated_write"
    /\ wr' = [wr EXCEPT ![p].app = Append(@, [op |-> req[p].op, ownerId |-> loc[p].ownerId,
                                              gate |-> GateOutcome(loc[p].gate)])]
    /\ Goto(p, "commit", [loc[p] EXCEPT !.resp = Response(200, "ok")])
    /\ UNCHANGED <<clockVars, dbVars, lockVars, histVars, req, res>>

GateStep(p) ==
    \/ enforceShopSubscriptionForBooking_shop(p)
    \/ enforceOwnerSubscriptionForManagement_owner(p)
    \/ enforceSubscription_state(p)
    \/ ensureDailySubscriptionExpiredNotification_insert(p)
    \/ ensureDailySubscriptionExpiredNotification_update(p)
    \/ gatedOperation_write(p)

-----------------------------------------------------------------------------
(* The environment: the clock and the arrival of requests *)

Tick ==
    /\ now < MaxNow
    /\ now' = now + 1
    /\ UNCHANGED <<usage, shops, arg, out, dbVars, lockVars, histVars, pc, req, loc, wr, res>>

\* the first position of each handler
Entry(op) ==
    CASE op = "paypalCaptureOrder" -> "capture"
      [] op = "approveManualPaymentReport" -> "apr_lock"
      [] op = "rejectManualPaymentReport" -> "rej_lock"
      [] op = "createManualPaymentReport" -> "mpr_begin"
      [] op = "getOwnerSubscriptionSummary" -> "summary_begin"
      [] op = "adminActivateSubscription" -> "adm_begin"
      [] op = "paypalWebhook" -> "wh_verify"
      [] op = "paypalCreateSubscription" -> "create_check"
      [] op = "paypalConfirmSubscription" -> "confirm_fetch"
      [] op = "paypalCancelSubscription" -> "cancel_begin"
      [] op = "paypalChangeSubscriptionPlan" -> "change_begin"
      [] op = "putBarberBreaks" -> "gate_shop"
      [] op = "putBarberServicesByShop" -> "gate_shop"
      [] op = "updateUser" -> "gate_shop"
      [] op = "updateUserProfile" -> "gate_owner"
      [] OTHER -> "done"

\* the client sends again, after every earlier request was answered, the
\* capture of an order the provider has already captured
IsRetry(r) ==
    /\ r.op = "paypalCaptureOrder"
    /\ r.orderId \in captured
    /\ \A q \in Procs : pc[q] \in {"idle", "done"}

\* a free connection takes one of the requests rs
Receive(p, rs) ==
    /\ pc[p] \in {"idle", "done"}
    /\ nreq < MaxReqs
    /\ \E r \in rs :
         /\ req' = [req EXCEPT ![p] = [r EXCEPT !.retry = IsRetry(r)]]
         /\ pc' = [pc EXCEPT ![p] = Entry(r.op)]
    /\ loc' = [loc EXCEPT ![p] = NoLoc]
    /\ res' = [res EXCEPT ![p] = NoRes]
    /\ nreq' = nreq + 1
    /\ UNCHANGED <<clockVars, dbVars, lockVars, renewLog, captured, wr>>

\* the steps of the Subscription Record Store and of the Renewal Operation
RenewStep(p) ==
    \/ getOrCreateOwnerSubscription_select(p)
    \/ getOrCreateOwnerSubscription_insert(p)
    \/ renewSubscription30Days_compute(p)
    \/ renewSubscription30Days_update(p)

-----------------------------------------------------------------------------
(* Initial states *)

\* the days on which the owner's row was created by the first access: the
\* owner is Blocked, in Grace, Active until day 1, or Active at day 0
CreatedAt == {0 - 40, 0 - 32, 0 - 29, 0 - 10}

\* the row after paypalCreateSubscription stored the provider's subscription id
LinkedRow(row, subscriptionId, code) ==
    [row EXCEPT !.billing_provider = "paypal",
                !.paypal_subscription_id = subscriptionId,
                !.paypal_subscription_status = "APPROVAL_PENDING",
                !.pending_plan_code = code]

InitProcs ==
    /\ now = 0
    /\ lock = [o \in Owners |-> NoProc]
    /\ repLock = [r \in ReportIds |-> NoProc]
    /\ pc = [p \in Procs |-> "idle"]
    /\ req = [p \in Procs |-> NoReq]
    /\ loc = [p \in Procs |-> NoLoc]
    /\ wr = [p \in Procs |-> NoWr]
    /\ res = [p \in Procs |-> NoRes]
    /\ payments = <<>>
    /\ notifs = <<>>
    /\ appRows = <<>>
    /\ renewLog = <<>>
    /\ nreq = 0
    /\ captured = {}

InitEnv ==
    /\ usage = [o \in Owners |-> [shopCount |-> 1, professionalCount |-> 2]]
    /\ shops = [s \in {"s1"} |-> "o1"]
    /\ arg = <<>>
    /\ out = <<>>

-----------------------------------------------------------------------------
(* Webhook deliveries for one provider subscription *)

SaleCompleted(subscriptionId, saleId) ==
    [NoReq EXCEPT !.op = "paypalWebhook", !.verified = "SUCCESS", !.ppOk = TRUE,
                  !.event = [event_type |-> "PAYMENT.SALE.COMPLETED",
                             resource |-> [NoResource EXCEPT
                                              !.billing_agreement_id = subscriptionId,
                                              !.id = saleId]]]

SubscriptionActivated(subscriptionId) ==
    [NoReq EXCEPT !.op = "paypalWebhook", !.verified = "SUCCESS", !.ppOk = TRUE,
                  !.event = [event_type |-> "BILLING.SUBSCRIPTION.ACTIVATED",
                             resource |-> [NoResource EXCEPT !.id = subscriptionId,
                                                             !.status = "ACTIVE"]]]

WebhookRequests ==
    {SaleCompleted("I-1", "t1"), SaleCompleted("I-1", "t2"),
     SaleCompleted("I-9", "t1"),
     SubscriptionActivated("I-1"),
     [SaleCompleted("I-1", "t1") EXCEPT !.verified = "FAILURE"],
     [SaleCompleted("I-1", "t1") EXCEPT !.verified = "ERROR"]}

InitWebhook ==
    /\ InitProcs
    /\ InitEnv
    /\ reports = [r \in {} |-> 0]
    /\ \E c \in CreatedAt :
         subs = [o \in Owners |-> LinkedRow(NewSubscriptionRow(c), "I-1", "pro")]

WebhookStep(p) ==
    \/ paypalWebhook_verify(p)
    \/ paypalWebhook_lock(p)
    \/ paypalWebhook_status(p)
    \/ paypalWebhook_plansync(p)
    \/ paypalWebhook_exists(p)
    \/ paypalWebhook_insert(p)
    \/ paypalWebhook_activate(p)

NextWebhook ==
    \/ Tick
    \/ \E p \in Procs :
         \/ Receive(p, WebhookRequests)
         \/ WebhookStep(p)
         \/ getOrCreateOwnerSubscription_select(p)
         \/ renewSubscription30Days_compute(p)
         \/ renewSubscription30Days_update(p)
         \/ Commit(p)
         \/ Rollback(p)

SpecWebhook == InitWebhook /\ [][NextWebhook]_vars

-----------------------------------------------------------------------------
(* Webhook events of every kind, verified or not *)

\* a delivery about a sale of provider subscription subscriptionId whose
\* plan id the provider lookup maps to planCodeFromPaypal
SaleEvent(eventType, subscriptionId, saleId, planCodeFromPaypal) ==
    [SaleCompleted(subscriptionId, saleId) EXCEPT
        !.event.event_type = eventType, !.ppPlanCode = planCodeFromPaypal]

\* BILLING.SUBSCRIPTION.PAYMENT.FAILED: resource is the subscription
SubscriptionPaymentFailed(subscriptionId) ==
    [SubscriptionActivated(subscriptionId) EXCEPT
        !.event.event_type = "BILLING.SUBSCRIPTION.PAYMENT.FAILED"]

EventRequests ==
    {SaleEvent("PAYMENT.SALE.COMPLETED", "I-1", "t1", "premium"),
     SaleEvent("PAYMENT.SALE.COMPLETED", "I-1", "t2", NULL),
     SaleEvent("PAYMENT.SALE.PENDING", "I-1", "t3", NULL),
     SaleEvent("PAYMENT.SALE.DENIED", "I-1", "t4", NULL),
     SaleEvent("PAYMENT.SALE.REFUNDED", "I-1", "t1", NULL),
     SubscriptionActivated("I-1"),
     SubscriptionPaymentFailed("I-1")}
    \cup {[SaleEvent("PAYMENT.SALE.COMPLETED", "I-1", "t1", "premium") EXCEPT !.verified = v] :
             v \in {"FAILURE", "ERROR", "NO_WEBHOOK_ID", "NO_HEADERS"}}

\* the row linked to provider subscription I-1, Blocked or Active, with or
\* without a current and a pending plan code
InitEvents ==
    /\ InitProcs
    /\ InitEnv
    /\ reports = [r \in {} |-> 0]
    /\ \E c \in {0 - 40, 0 - 10}, plan \in {NULL, "basic_1"}, pending \in {NULL, "pro"} :
         subs = [o \in Owners |->
                    [LinkedRow(NewSubscriptionRow(c), "I-1", pending) EXCEPT
                        !.plan_code = plan]]

NextEvents ==
    \E p \in Procs :
        \/ Receive(p, EventRequests)
        \/ WebhookStep(p)
        \/ getOrCreateOwnerSubscription_select(p)
        \/ renewSubscription30Days_compute(p)
        \/ renewSubscription30Days_update(p)
        \/ Commit(p)
        \/ Rollback(p)

SpecEvents == InitEvents /\ [][NextEvents]_vars

-----------------------------------------------------------------------------
(* Decisions on manual payment reports *)

Decision(op, role, reportId) ==
    [NoReq EXCEPT !.op = op, !.userId = "u-" \o role, !.role = role, !.reportId = reportId]

ManualRequests ==
    {Decision(op, "admin", r) : op \in {"approveManualPaymentReport",
                                        "rejectManualPaymentReport"},
                                r \in {"r1", "r2"}}
    \cup {Decision("approveManualPaymentReport", "owner", "r1"),
          Decision("rejectManualPaymentReport", "owner", "r1")}

\* the owner submitted report r1; there is no report r2
InitManual ==
    /\ InitProcs
    /\ InitEnv
    /\ reports = [r \in {"r1"} |-> ReportRow("o1", "pending", NULL)]
    /\ \E c \in CreatedAt :
         subs = [o \in Owners |-> ReportedRow(NewSubscriptionRow(c))]

ManualStep(p) ==
    \/ approveManualPaymentReport_lock(p)
    \/ approveManualPaymentReport_insert(p)
    \/ approveManualPaymentReport_mark(p)
    \/ rejectManualPaymentReport_lock(p)
    \/ rejectManualPaymentReport_mark(p)

NextManual ==
    \/ Tick
    \/ \E p \in Procs :
         \/ Receive(p, ManualRequests)
         \/ ManualStep(p)
         \/ getOrCreateOwnerSubscription_select(p)
         \/ renewSubscription30Days_compute(p)
         \/ renewSubscription30Days_update(p)
         \/ Commit(p)
         \/ Rollback(p)

SpecManual == InitManual /\ [][NextManual]_vars

-----------------------------------------------------------------------------
(* Reports of manual transfers, and their approval *)

ManualPaymentReport(role, ownerId, reference, proofUrl, currency) ==
    [NoReq EXCEPT !.op = "createManualPaymentReport",
                  !.userId = IF role = "owner" THEN "o1" ELSE "u-" \o role,
                  !.role = role, !.ownerId = ownerId, !.amount = 1500,
                  !.currency = currency, !.reference = reference,
                  !.proofUrl = proofUrl]

\* reports with a reference, a proof, both missing or empty, by the owner, an
\* admin, a client and an unauthenticated caller; the approval of the first
ReportRequests ==
    {ManualPaymentReport("owner", NULL, "ref-1", NULL, NULL),
     ManualPaymentReport("owner", NULL, NULL, "url-1", NULL),
     ManualPaymentReport("owner", NULL, NULL, NULL, NULL),
     ManualPaymentReport("owner", NULL, "", NULL, NULL),
     ManualPaymentReport("admin", "o1", "ref-2", NULL, "USD"),
     ManualPaymentReport("admin", "", "ref-2", NULL, NULL),
     ManualPaymentReport("client", NULL, "ref-1", NULL, NULL),
     [ManualPaymentReport("owner", NULL, "ref-1", NULL, NULL) EXCEPT !.userId = NULL],
     Decision("approveManualPaymentReport", "admin", "r1")}

\* the owner has no row, or one that is Blocked, in Grace or Active
InitReport ==
    /\ InitProcs
    /\ InitEnv
    /\ reports = [r \in {} |-> 0]
    /\ \/ subs = [o \in {} |-> 0]
       \/ \E c \in {0 - 40, 0 - 32, 0 - 10} :
            subs = [o \in Owners |-> NewSubscriptionRow(c)]

ReportStep(p) ==
    \/ createManualPaymentReport_begin(p)
    \/ createManualPaymentReport_insert(p)
    \/ createManualPaymentReport_update(p)

NextReport ==
    \/ Tick
    \/ \E p \in Procs :
         \/ Receive(p, ReportRequests)
         \/ ReportStep(p)
         \/ approveManualPaymentReport_lock(p)
         \/ approveManualPaymentReport_insert(p)
         \/ approveManualPaymentReport_mark(p)
         \/ RenewStep(p)
         \/ StatementFails(p)
         \/ Commit(p)
         \/ Rollback(p)

SpecReport == InitReport /\ [][NextReport]_vars

-----------------------------------------------------------------------------
(* All payment rails of one owner *)

Capture(orderId, ok, status, captureId) ==
    [NoReq EXCEPT !.op = "paypalCaptureOrder", !.userId = "o1", !.role = "owner",
                  !.orderId = orderId, !.ppOk = ok, !.ppStatus = status,
                  !.captureId = captureId]

AdminActivate(ownerId) ==
    [NoReq EXCEPT !.op = "adminActivateSubscription", !.userId = "u-admin",
                  !.role = "admin", !.ownerId = ownerId]

RailRequests ==
    {Capture("ord1", TRUE, "COMPLETED", "cap1"),
     Decision("approveManualPaymentReport", "admin", "r1"),
     Decision("approveManualPaymentReport", "admin", "r2"),
     AdminActivate("o1"),
     SaleCompleted("I-1", "t1")}

\* the owner's row was created so that the period has ended, or ends after day 0
RailCreatedAt == {0 - 40, 0 - 10}

\* either the owner was never accessed, or the owner has a row, a provider
\* subscription and two pending reports
Init ==
    /\ InitProcs
    /\ InitEnv
    /\ \/ /\ subs = [o \in {} |-> 0]
          /\ reports = [r \in {} |-> 0]
       \/ /\ \E c \in RailCreatedAt :
               subs = [o \in Owners |->
                          ReportedRow(LinkedRow(NewSubscriptionRow(c), "I-1", NULL))]
          /\ reports = [r \in {"r1", "r2"} |-> ReportRow("o1", "pending", NULL)]

Next ==
    \/ Tick
    \/ \E p \in Procs :
         \/ Receive(p, RailRequests)
         \/ paypalCaptureOrder_capture(p)
         \/ paypalCaptureOrder_insert(p)
         \/ approveManualPaymentReport_lock(p)
         \/ approveManualPaymentReport_insert(p)
         \/ approveManualPaymentReport_mark(p)
         \/ adminActivateSubscription_begin(p)
         \/ paypalWebhook_verify(p)
         \/ paypalWebhook_lock(p)
         \/ paypalWebhook_plansync(p)
         \/ paypalWebhook_exists(p)
         \/ paypalWebhook_insert(p)
         \/ paypalWebhook_activate(p)
         \/ RenewStep(p)
         \/ Commit(p)
         \/ Rollback(p)

Spec == Init /\ [][Next]_vars

-----------------------------------------------------------------------------
(* The payment rails when statements can fail *)

\* a capture the provider refuses
CaptureRefused(orderId) == Capture(orderId, FALSE, NULL, NULL)

FailureRequests ==
    {Capture("ord1", TRUE, "COMPLETED", "cap1"),
     CaptureRefused("ord1"),
     Decision("approveManualPaymentReport", "admin", "r1"),
     SaleCompleted("I-1", "t1")}

NextFailure ==
    \E p \in Procs :
        \/ Receive(p, FailureRequests)
        \/ paypalCaptureOrder_capture(p)
        \/ paypalCaptureOrder_insert(p)
        \/ approveManualPaymentReport_lock(p)
        \/ approveManualPaymentReport_insert(p)
        \/ approveManualPaymentReport_mark(p)
        \/ paypalWebhook_verify(p)
        \/ paypalWebhook_lock(p)
        \/ paypalWebhook_plansync(p)
        \/ paypalWebhook_exists(p)
        \/ paypalWebhook_insert(p)
        \/ paypalWebhook_activate(p)
        \/ RenewStep(p)
        \/ StatementFails(p)
        \/ Commit(p)
        \/ Rollback(p)

SpecFailure == Init /\ [][NextFailure]_vars

-----------------------------------------------------------------------------
(* Creation and confirmation of a provider subscription *)

CreateSubscription(planCode, ok, subscriptionId) ==
    [NoReq EXCEPT !.op = "paypalCreateSubscription", !.userId = "o1", !.role = "owner",
                  !.planCode = planCode, !.ppOk = ok, !.ppSubscriptionId = subscriptionId,
                  !.ppStatus = "APPROVAL_PENDING"]

ConfirmSubscription(subscriptionId, status, planCodeFromPaypal, nextBilling) ==
    [NoReq EXCEPT !.op = "paypalConfirmSubscription", !.userId = "o1", !.role = "owner",
                  !.subscriptionId = subscriptionId, !.ppOk = TRUE, !.ppStatus = status,
                  !.ppPlanCode = planCodeFromPaypal, !.nextBilling = nextBilling]

\* plan codes asked for: the smallest tier, a larger one, one that is no code
SubscribeRequests ==
    {CreateSubscription(code, TRUE, "I-1") : code \in {"basic_1", "pro", "gold"}}
    \cup {CreateSubscription("pro", FALSE, NULL)}
    \cup {ConfirmSubscription("I-1", "ACTIVE", code, next) :
             code \in {NULL, "premium"}, next \in {NoTime, 1}}
    \cup {ConfirmSubscription("I-1", "SUSPENDED", "premium", 1)}

\* usage within basic_1, usage that needs pro, usage above every tier
SubscribeUsage ==
    {[shopCount |-> 1, professionalCount |-> 2],
     [shopCount |-> 2, professionalCount |-> 3],
     [shopCount |-> 4, professionalCount |-> 2]}

\* the row after one renewal that started at the end of its first period
RenewedRow(row) ==
    [row EXCEPT !.current_period_start = row.current_period_end,
                !.current_period_end = row.current_period_end + PeriodDays,
                !.grace_period_end = row.current_period_end + PeriodDays + GraceDays]

\* no row; or a row linked to provider subscription I-1, created on day -40
\* (Blocked) or created on day -10 and renewed once (period end day 50), with
\* or without a current and a pending plan
InitSubscribe ==
    /\ InitProcs
    /\ \E u \in SubscribeUsage : usage = [o \in Owners |-> u]
    /\ shops = [s \in {"s1"} |-> "o1"]
    /\ arg = <<>>
    /\ out = <<>>
    /\ reports = [r \in {} |-> 0]
    /\ \/ subs = [o \in {} |-> 0]
       \/ \E base \in {NewSubscriptionRow(0 - 40), RenewedRow(NewSubscriptionRow(0 - 10))},
             plan \in {NULL, "basic_1"}, pending \in {NULL, "pro"} :
            subs = [o \in Owners |->
                       [LinkedRow(base, "I-1", pending) EXCEPT !.plan_code = plan]]

NextSubscribe ==
    \/ Tick
    \/ \E p \in Procs :
         \/ Receive(p, SubscribeRequests)
         \/ SubscribeStep(p)
         \/ getOrCreateOwnerSubscription_select(p)
         \/ getOrCreateOwnerSubscription_insert(p)
         \/ Commit(p)
         \/ Rollback(p)

SpecSubscribe == InitSubscribe /\ [][NextSubscribe]_vars

-----------------------------------------------------------------------------
(* Cancel and change of plan, next to a confirmation *)

CancelSubscription(ok) ==
    [NoReq EXCEPT !.op = "paypalCancelSubscription", !.userId = "o1", !.role = "owner",
                  !.ppOk = ok]

ChangePlan(planCode, ok) ==
    [NoReq EXCEPT !.op = "paypalChangeSubscriptionPlan", !.userId = "o1",
                  !.role = "owner", !.planCode = planCode, !.ppOk = ok]

ManageRequests ==
    {CancelSubscription(TRUE), CancelSubscription(FALSE),
     ChangePlan("premium", TRUE), ChangePlan("premium", FALSE), ChangePlan("gold", TRUE),
     ConfirmSubscription("I-1", "ACTIVE", NULL, NoTime)}

\* no row; a row that was never linked to the provider; or a row linked to
\* provider subscription I-1 with or without a pending plan.  The row was
\* created on day -40 (Blocked), day -32 (Grace) or day -10 (Active)
InitManage ==
    /\ InitProcs
    /\ InitEnv
    /\ reports = [r \in {} |-> 0]
    /\ \/ subs = [o \in {} |-> 0]
       \/ \E c \in {0 - 40, 0 - 32, 0 - 10} :
            \/ subs = [o \in Owners |-> NewSubscriptionRow(c)]
            \/ \E pending \in {NULL, "pro"} :
                 subs = [o \in Owners |->
                            [LinkedRow(NewSubscriptionRow(c), "I-1", pending) EXCEPT
                                !.plan_code = "basic_1"]]

NextManage ==
    \/ Tick
    \/ \E p \in Procs :
         \/ Receive(p, ManageRequests)
         \/ ManageStep(p)
         \/ paypalConfirmSubscription_fetch(p)
         \/ paypalConfirmSubscription_update(p)
         \/ getOrCreateOwnerSubscription_select(p)
         \/ getOrCreateOwnerSubscription_insert(p)
         \/ Commit(p)
         \/ Rollback(p)

SpecManage == InitManage /\ [][NextManage]_vars

-----------------------------------------------------------------------------
(* Gated operations *)

GatedRequests ==
    {[NoReq EXCEPT !.op = "putBarberBreaks", !.userId = "o1", !.role = "owner",
                   !.shopId = s] : s \in {"s1", "s2", "s3"}}
    \cup {[NoReq EXCEPT !.op = "updateUserProfile", !.userId = "o1", !.role = "owner",
                        !.ownerId = o] : o \in {"o1", NULL}}

\* the days on which the row of the gate's owner was created: its period ends
\* between day -6 and day 2, its grace between day -1 and day 7
GateCreatedAt == {c - 36 : c \in 0..8}

\* shop s1 belongs to o1, shop s2 has no owner, there is no shop s3
InitGate ==
    /\ InitProcs
    /\ usage = [o \in Owners |-> [shopCount |-> 1, professionalCount |-> 2]]
    /\ shops = [s \in {"s1", "s2"} |-> IF s = "s1" THEN "o1" ELSE NULL]
    /\ arg = <<>>
    /\ out = <<>>
    /\ reports = [r \in {} |-> 0]
    /\ \/ subs = [o \in {} |-> 0]
       \/ \E c \in GateCreatedAt, alerted \in {NoTime, 0} :
            subs = [o \in Owners |->
                       [NewSubscriptionRow(c) EXCEPT !.last_alert_sent_at = alerted]]

NextGate ==
    \/ Tick
    \/ \E p \in Procs :
         \/ Receive(p, GatedRequests)
         \/ GateStep(p)
         \/ getOrCreateOwnerSubscription_select(p)
         \/ getOrCreateOwnerSubscription_insert(p)
         \/ Commit(p)
         \/ Rollback(p)

SpecGate == InitGate /\ [][NextGate]_vars

-----------------------------------------------------------------------------
(* Gated operations one after the other *)

\* a request that arrives when every earlier request has been answered
ReceiveAlone(p, rs) ==
    /\ \A q \in Procs : pc[q] \in {"idle", "done"}
    /\ Receive(p, rs)

\* every gated route on shop s1 of owner o1, and the owner's profile update
SequentialRequests ==
    {[NoReq EXCEPT !.op = op, !.userId = "o1", !.role = "owner", !.shopId = "s1"] :
        op \in {"putBarberBreaks", "putBarberServicesByShop", "updateUser"}}
    \cup {[NoReq EXCEPT !.op = "updateUserProfile", !.userId = "o1", !.role = "owner",
                        !.ownerId = "o1"]}

NextGateSeq ==
    \/ Tick
    \/ \E p \in Procs :
         \/ ReceiveAlone(p, SequentialRequests)
         \/ GateStep(p)
         \/ getOrCreateOwnerSubscription_select(p)
         \/ getOrCreateOwnerSubscription_insert(p)
         \/ Commit(p)
         \/ Rollback(p)

SpecGateSeq == InitGate /\ [][NextGateSeq]_vars

-----------------------------------------------------------------------------
(* The entitlement state as a function of (now, period_end, grace_end) *)

\* times of the inputs of computeSubscriptionState run from day 0 to day MaxT
MaxT == 12

TimeOrNull == (0..MaxT) \cup {NoTime}

InitState ==
    /\ InitProcs
    /\ InitEnv
    /\ subs = [o \in {} |-> 0]
    /\ reports = [r \in {} |-> 0]

\* one call of computeSubscriptionState(subscriptionRow) at time clock
computeSubscriptionState_call ==
    /\ out = <<>>
    /\ \E periodEnd \in TimeOrNull, graceEnd \in TimeOrNull, clock \in 0..MaxT :
         LET row == [NewSubscriptionRow(0) EXCEPT !.current_period_end = periodEnd,
                                                  !.grace_period_end = graceEnd]
         IN  /\ arg' = <<row, clock>>
             /\ out' = <<computeSubscriptionState(row, clock)>>
    /\ UNCHANGED <<now, usage, shops, dbVars, lockVars, histVars, pc, req, loc, wr, res>>

SpecState == InitState /\ [][computeSubscriptionState_call]_vars

-----------------------------------------------------------------------------
(* Calls of computeMonthlyPriceDop *)

\* the counts range from -1 to these
MaxShopCount == 5
MaxProfessionalCount == 20

\* one call of computeMonthlyPriceDop({ shopCount, professionalCount })
computeMonthlyPriceDop_call ==
    /\ out = <<>>
    /\ \E shopCount \in (0 - 1)..MaxShopCount,
          professionalCount \in (0 - 1)..MaxProfessionalCount :
         LET u == [shopCount |-> shopCount, professionalCount |-> professionalCount]
         IN  /\ arg' = <<u>>
             /\ out' = <<computeMonthlyPriceDop(u)>>
    /\ UNCHANGED <<now, usage, shops, dbVars, lockVars, histVars, pc, req, loc, wr, res>>

SpecPricing == InitState /\ [][computeMonthlyPriceDop_call]_vars

-----------------------------------------------------------------------------
(* Confirmations of a provider subscription the row is not linked to *)

\* confirmations of I-2 and of I-1 in every provider status, and the
\* creation that links the row to I-1
ConfirmRequests ==
    {ConfirmSubscription("I-2", status, code, next) :
        status \in {"ACTIVE", "SUSPENDED", "APPROVAL_PENDING"},
        code \in {NULL, "premium"}, next \in {NoTime, 1}}
    \cup {ConfirmSubscription("I-1", "ACTIVE", "premium", NoTime),
          CreateSubscription("pro", TRUE, "I-1")}

\* no row, a row without provider subscription, a row linked to I-1
InitConfirm ==
    /\ InitProcs
    /\ InitEnv
    /\ reports = [r \in {} |-> 0]
    /\ \/ subs = [o \in {} |-> 0]
       \/ subs = [o \in Owners |-> NewSubscriptionRow(0 - 10)]
       \/ \E pending \in {NULL, "pro"} :
            subs = [o \in Owners |->
                       LinkedRow(NewSubscriptionRow(0 - 10), "I-1", pending)]

NextConfirm ==
    \/ Tick
    \/ \E p \in Procs :
         \/ Receive(p, ConfirmRequests)
         \/ SubscribeStep(p)
         \/ getOrCreateOwnerSubscription_select(p)
         \/ getOrCreateOwnerSubscription_insert(p)
         \/ Commit(p)
         \/ Rollback(p)

SpecConfirm == InitConfirm /\ [][NextConfirm]_vars

-----------------------------------------------------------------------------
(* Reports and decisions by callers of every role *)

\* reports by the owner, for themself and naming another owner, by a client,
\* a barber and an admin naming the owner; decisions on the first report by
\* an admin, the owner and a client
AccessRequests ==
    {ManualPaymentReport("owner", NULL, "ref-1", NULL, NULL),
     ManualPaymentReport("owner", "o2", "ref-1", NULL, NULL),
     ManualPaymentReport("client", "o1", "ref-1", NULL, NULL),
     ManualPaymentReport("barber", "o1", "ref-1", NULL, NULL),
     ManualPaymentReport("admin", "o1", "ref-2", NULL, NULL)}
    \cup {Decision(op, role, "r1") :
             op \in {"approveManualPaymentReport", "rejectManualPaymentReport"},
             role \in {"admin", "owner", "client"}}

\* nothing is stored yet, or the owner's first report waits for its decision
InitAccess ==
    /\ InitProcs
    /\ InitEnv
    /\ \/ /\ subs = [o \in {} |-> 0]
          /\ reports = [r \in {} |-> 0]
       \/ /\ \E c \in {0 - 40, 0 - 10} :
               subs = [o \in Owners |-> ReportedRow(NewSubscriptionRow(c))]
          /\ reports = [r \in {"r1"} |-> ReportRow("o1", "pending", NULL)]

NextAccess ==
    \/ Tick
    \/ \E p \in Procs :
         \/ Receive(p, AccessRequests)
         \/ ReportStep(p)
         \/ ManualStep(p)
         \/ RenewStep(p)
         \/ Commit(p)
         \/ Rollback(p)

SpecAccess == InitAccess /\ [][NextAccess]_vars

-----------------------------------------------------------------------------
(* Captures of orders in every state *)

\* the provider completes the capture, answers with another status, or
\* answers with an error; a request without order id
CaptureRequests ==
    {Capture("ord1", TRUE, "COMPLETED", "cap1"),
     Capture("ord2", TRUE, "PENDING", NULL),
     Capture("ord3", TRUE, "DECLINED", "cap3"),
     Capture("ord4", TRUE, NULL, NULL),
     Capture("ord5", FALSE, NULL, NULL),
     Capture("ord6", FALSE, "COMPLETED", "cap6"),
     Capture(NULL, TRUE, "COMPLETED", "cap7")}

NextCapture ==
    \/ Tick
    \/ \E p \in Procs :
         \/ Receive(p, CaptureRequests)
         \/ paypalCaptureOrder_capture(p)
         \/ paypalCaptureOrder_insert(p)
         \/ RenewStep(p)
         \/ Commit(p)
         \/ Rollback(p)

SpecCapture == Init /\ [][NextCapture]_vars

-----------------------------------------------------------------------------
(* Every operation of the engine, one request after the other *)

Summary(role, userId, ownerId) ==
    [NoReq EXCEPT !.op = "getOwnerSubscriptionSummary", !.userId = userId,
                  !.role = role, !.ownerId = ownerId]

\* the operations that renew, and those that read, sync or report
EngineRequests ==
    {Capture("ord1", TRUE, "COMPLETED", "cap1"),
     SaleCompleted("I-1", "t1"),
     SubscriptionActivated("I-1"),
     Decision("approveManualPaymentReport", "admin", "r1"),
     Decision("rejectManualPaymentReport", "admin", "r1"),
     AdminActivate("o1"),
     ConfirmSubscription("I-1", "ACTIVE", NULL, 1),
     ConfirmSubscription("I-1", "SUSPENDED", NULL, NoTime),
     CreateSubscription("pro", TRUE, "I-1"),
     CancelSubscription(TRUE),
     ChangePlan("premium", TRUE),
     ManualPaymentReport("owner", NULL, "ref-1", NULL, NULL),
     Summary("owner", "o1", "o1"),
     [NoReq EXCEPT !.op = "putBarberBreaks", !.userId = "o1", !.role = "owner",
                   !.shopId = "s1"],
     [NoReq EXCEPT !.op = "updateUserProfile", !.userId = "o1", !.role = "owner",
                   !.ownerId = "o1"]}

\* the owner has no row, or a linked row that is Blocked or in Grace until
\* day 1; the owner has reported one transfer
InitEngine ==
    /\ InitProcs
    /\ InitEnv
    /\ \/ /\ subs = [o \in {} |-> 0]
          /\ reports = [r \in {} |-> 0]
       \/ /\ \E c \in {0 - 40, 0 - 34} :
               subs = [o \in Owners |->
                          LinkedRow(ReportedRow(NewSubscriptionRow(c)), "I-1", NULL)]
          /\ reports = [r \in {"r1"} |-> ReportRow("o1", "pending", NULL)]

NextEngine ==
    \/ Tick
    \/ \E p \in Procs :
         \/ ReceiveAlone(p, EngineRequests)
         \/ paypalCaptureOrder_capture(p)
         \/ paypalCaptureOrder_insert(p)
         \/ adminActivateSubscription_begin(p)
         \/ ManualStep(p)
         \/ ReportStep(p)
         \/ WebhookStep(p)
         \/ SubscribeStep(p)
         \/ ManageStep(p)
         \/ GateStep(p)
         \/ getOwnerSubscriptionSummary_begin(p)
         \/ getOwnerSubscriptionSummary_reply(p)
         \/ RenewStep(p)
         \/ Commit(p)
         \/ Rollback(p)

SpecEngine == InitEngine /\ [][NextEngine]_vars

-----------------------------------------------------------------------------
(* Properties *)

DecisionOps == {"approveManualPaymentReport", "rejectManualPaymentReport"}

\* the committed payments rows of a provider with a provider payment id
PaymentsOf(provider, id) ==
    {i \in 1..Len(payments) : /\ payments[i].provider = provider
                              /\ payments[i].provider_payment_id = id}

\* the committed 'manual' payments rows of a report
ManualPaymentsOf(r) ==
    {i \in 1..Len(payments) : /\ payments[i].provider = "manual"
                              /\ payments[i].reportId = r}

\* the committed renewals an operation made for a transaction, order or report
RenewalsOf(op, key) ==
    {i \in 1..Len(renewLog) : renewLog[i].op = op /\ renewLog[i].key = key}

PeriodOf(row) ==
    <<row.current_period_start, row.current_period_end, row.grace_period_end>>

\* p is handling a verified payment-success webhook event
PaymentWebhook(p) ==
    /\ req[p].op = "paypalWebhook"
    /\ req[p].verified = "SUCCESS"
    /\ pc[p] \notin {"idle", "done"}
    /\ isPaymentSuccessEvent(req[p].event.event_type)
    /\ EventTransactionId(req[p].event) # NULL

\* p is an admin's approve or reject of report r
DecisionOn(p, r) ==
    /\ req[p].op \in DecisionOps
    /\ req[p].reportId = r
    /\ req[p].role = "admin"

-----------------------------------------------------------------------------
\* C4: for a row with current_period_end = T and grace_period_end = T + 5 days,
\* computeSubscriptionState gives Active exactly when now <= T, Grace exactly
\* when T < now <= T + 5 days and Blocked exactly when now > T + 5 days; and for
\* every input, NULL columns included, exactly one of isActive, isInGrace,
\* isBlocked is true.
C4_StateBoundaries ==
    out # <<>> =>
        LET row == arg[1]
            clock == arg[2]
            T == row.current_period_end
            state == out[1]
        IN  /\ Cardinality({f \in {"isActive", "isInGrace", "isBlocked"} : state[f]}) = 1
            /\ (T # NoTime /\ row.grace_period_end = T + 5) =>
                  /\ state.isActive <=> clock <= T
                  /\ state.isInGrace <=> (T < clock /\ clock <= T + 5)
                  /\ state.isBlocked <=> clock > T + 5

\* the last instant of Grace: now = T + 5 days
C4_GraceBoundaryReached ==
    /\ out # <<>>
    /\ arg[1].current_period_end # NoTime
    /\ arg[1].grace_period_end = arg[1].current_period_end + 5
    /\ arg[2] = arg[1].grace_period_end
    /\ out[1].isInGrace

-----------------------------------------------------------------------------
\* C1: a verified payment-success webhook event delivered again after a
\* delivery with the same provider transaction id has committed its Payment
\* row changes neither the ledger nor current_period_start, current_period_end
\* and grace_period_end; so there is at most one Payment row with provider
\* 'paypal_subscription' and that id, and at most one renewal for it.
C1_WebhookReplayIdempotent ==
    [][ /\ \A t \in {"t1", "t2"} :
             /\ Cardinality(PaymentsOf("paypal_subscription", t)') <= 1
             /\ Cardinality(RenewalsOf("paypalWebhook", t)') <= 1
        /\ \A p \in Procs :
             ( /\ PaymentWebhook(p)
               /\ PaymentsOf("paypal_subscription", EventTransactionId(req[p].event)) # {}
               /\ pc'[p] # pc[p] )
             => /\ payments' = payments
                /\ renewLog' = renewLog
                /\ DOMAIN subs' = DOMAIN subs
                /\ \A o \in DOMAIN subs : PeriodOf(subs'[o]) = PeriodOf(subs[o])
      ]_vars

\* one delivery of an event has renewed and answered; another delivery of the
\* same event found the Payment row and is about to commit
C1_SecondDeliveryFoundPayment ==
    \E p, q \in Procs :
        /\ p # q
        /\ req[p] = req[q]
        /\ PaymentWebhook(p)
        /\ pc[q] = "done"
        /\ res[q].message = "received, renewed"
        /\ pc[p] = "commit"
        /\ loc[p].exists
        /\ Cardinality(PaymentsOf("paypal_subscription",
                                  EventTransactionId(req[p].event))) = 1
        /\ Len(renewLog) = 1

-----------------------------------------------------------------------------
\* C8: webhook deliveries for one provider subscription are serialised by the
\* row lock before any write: at most one is past its SELECT ... FOR UPDATE;
\* a transaction id has at most one Payment row and one renewal; every renewal
\* has its Payment row and is anchored on the period end committed when it
\* commits, which is the period end written by the renewal before it.
C8_WebhooksSerialised ==
    /\ \A o \in Owners :
         Cardinality({p \in Procs : /\ req[p].op = "paypalWebhook"
                                    /\ pc[p] \notin {"idle", "done", "rollback"}
                                    /\ loc[p].ownerId = o}) <= 1
    /\ \A t \in {"t1", "t2"} :
         /\ Cardinality(PaymentsOf("paypal_subscription", t)) <= 1
         /\ Cardinality(RenewalsOf("paypalWebhook", t)) <= 1
    /\ \A i \in 1..Len(renewLog) :
         LET e == renewLog[i]
         IN  /\ Cardinality(PaymentsOf("paypal_subscription", e.key)) = 1
             /\ e.read = e.base
             /\ e.start = Max(e.clock, e.base)
             /\ i > 1 => e.base = renewLog[i - 1].periodEnd

\* two deliveries with different transaction ids, the second waiting for the
\* row lock while the first committed, have both renewed
C8_TwoTransactionsRenewed ==
    /\ Len(renewLog) = 2
    /\ "wh_lock" \in renewLog[1].peers
    /\ renewLog[1].key # renewLog[2].key
    /\ renewLog[2].start = renewLog[1].periodEnd
    /\ Len(payments) = 2

-----------------------------------------------------------------------------
\* C2: a report's row changes only from status pending to approved or to
\* rejected, hence at most once; an admin's approve or reject that finds the
\* report not pending throws HTTP 400 'Este reporte ya fue procesado', answers
\* with it after ROLLBACK, and neither step changes the report, the
\* subscriptions row or the payments ledger.
C2_ReportDecidedOnce ==
    [][ /\ DOMAIN reports' = DOMAIN reports
        /\ \A r \in DOMAIN reports :
             reports'[r] # reports[r] =>
                 /\ reports[r].status = "pending"
                 /\ reports'[r].status \in {"approved", "rejected"}
        /\ \A p \in Procs, r \in DOMAIN reports :
             ( /\ DecisionOn(p, r)
               /\ pc[p] \in {"apr_lock", "rej_lock"}
               /\ pc'[p] # pc[p]
               /\ reports[r].status # "pending" )
             => /\ pc'[p] = "rollback"
                /\ loc'[p].resp.status = 400
                /\ loc'[p].resp.message = "Este reporte ya fue procesado"
                /\ wr'[p] = NoWr
                /\ <<subs, payments, reports>>' = <<subs, payments, reports>>
        /\ \A p \in Procs :
             (req[p].op \in DecisionOps /\ pc[p] = "rollback" /\ pc'[p] # pc[p])
             => /\ res'[p] = loc[p].resp
                /\ <<subs, payments, reports>>' = <<subs, payments, reports>>
      ]_vars

\* a decision on an already decided report was answered with HTTP 400
C2_DecidedReportRefused ==
    \E p \in Procs :
        /\ DecisionOn(p, "r1")
        /\ pc[p] = "done"
        /\ res[p].status = 400
        /\ res[p].message = "Este reporte ya fue procesado"
        /\ reports["r1"].status \in {"approved", "rejected"}

-----------------------------------------------------------------------------
\* C9: decisions on one report are serialised by the row-locked fetch: at most
\* one admin decision is past its SELECT ... FOR UPDATE; at most one decision
\* is answered with success and the report carries that decision's status; a
\* decision refused with HTTP 400 left a decided report; of two decisions on
\* the report exactly one succeeded; the report has at most one renewal and at
\* most one 'manual' Payment row, which exists exactly when it is approved.
C9_OneDecisionTakesEffect ==
    \A r \in DOMAIN reports :
        LET finished == {p \in Procs : DecisionOn(p, r) /\ pc[p] = "done"}
            succeeded == {p \in finished : res[p].status = 200}
        IN  /\ Cardinality({p \in Procs :
                               /\ DecisionOn(p, r)
                               /\ pc[p] \notin {"idle", "done", "apr_lock", "rej_lock"}}) <= 1
            /\ Cardinality(succeeded) <= 1
            /\ \A p \in succeeded :
                 reports[r].status = IF req[p].op = "approveManualPaymentReport"
                                     THEN "approved" ELSE "rejected"
            /\ \A p \in finished \ succeeded :
                 /\ res[p].status = 400
                 /\ res[p].message = "Este reporte ya fue procesado"
                 /\ reports[r].status # "pending"
            /\ (nreq = 2 /\ finished = Procs) => Cardinality(succeeded) = 1
            /\ Cardinality(RenewalsOf("approveManualPaymentReport", r)) <= 1
            /\ Cardinality(ManualPaymentsOf(r)) <= 1
            /\ (reports[r].status = "approved") <=> (ManualPaymentsOf(r) # {})

\* an approval committed while another decision on the same report waited for
\* the row lock, and that decision was then refused
C9_ConcurrentDecisionRefused ==
    \E p, q \in Procs :
        /\ p # q
        /\ DecisionOn(p, "r1") /\ DecisionOn(q, "r1")
        /\ pc[p] = "done" /\ pc[q] = "done"
        /\ res[p].status = 200
        /\ res[q].status = 400
        /\ Len(renewLog) = 1
        /\ renewLog[1].proc = p
        /\ renewLog[1].peers \subseteq {"apr_lock", "rej_lock"}
        /\ Cardinality(ManualPaymentsOf("r1")) = 1

-----------------------------------------------------------------------------
\* C3: the UPDATE of renewSubscription30Days, made from the subscription row
\* the renewal fetched and its reading of now, writes current_period_start =
\* max(now, fetched current_period_end), current_period_end = start + 30 days,
\* grace_period_end = current_period_end + 5 days and status 'active', so the
\* written current_period_end is not before the fetched one; COMMIT stores
\* these values.
C3_RenewalPeriod ==
    [][ \A p \in Procs :
          /\ (pc[p] = "renew_update" /\ pc'[p] # pc[p]) =>
                LET previousEnd == loc[p].sub[1].current_period_end
                    written == wr'[p].sub[loc[p].ownerId][1]
                IN  /\ written.current_period_start = Max(loc[p].clock, previousEnd)
                    /\ written.current_period_end = written.current_period_start + 30
                    /\ written.grace_period_end = written.current_period_end + 5
                    /\ written.status = "active"
                    /\ written.current_period_end >= previousEnd
                    /\ loc'[p].renewed
          /\ (pc[p] = "commit" /\ loc[p].renewed /\ pc'[p] # pc[p]) =>
                /\ subs'[loc[p].ownerId].status = "active"
                /\ PeriodOf(subs'[loc[p].ownerId]) = PeriodOf(wr[p].sub[loc[p].ownerId][1])
      ]_vars

\* an early renewal: the period written starts at the fetched period end,
\* which is after now
C3_EarlyRenewalWritten ==
    \E p \in Procs :
        /\ pc[p] = "commit"
        /\ loc[p].renewed
        /\ loc[p].sub[1].current_period_end > loc[p].clock
        /\ wr[p].sub[loc[p].ownerId][1].current_period_start
               = loc[p].sub[1].current_period_end

-----------------------------------------------------------------------------
\* C5: once the gate has resolved the owner and derived the state of the
\* owner's row, it throws exactly when that state is Blocked (now after
\* grace_period_end), with status 402 and details ownerId, periodEnd and
\* graceEnd of that row; in Active and in Grace it returns the owner id, the
\* row it fetched and the derived state.
C5_GateBlocksOnlyBlocked ==
    [][ \A p \in Procs :
          (pc[p] \in {"gate_state", "notify_update"} /\
           pc'[p] \in {"rollback", "gated_write"}) =>
             LET row == loc[p].sub[1]
                 clock == IF pc[p] = "gate_state" THEN now
                          ELSE loc[p].gate[1].state[1].now
                 blocked == \/ row.current_period_end = NoTime
                            \/ clock > row.grace_period_end
                 g == loc'[p].gate[1]
             IN  /\ g.threw <=> blocked
                 /\ g.threw <=> pc'[p] = "rollback"
                 /\ g.threw =>
                       /\ g.status = 402
                       /\ loc'[p].resp.status = 402
                       /\ g.details = [ownerId |-> loc[p].ownerId,
                                       periodEnd |-> row.current_period_end,
                                       graceEnd |-> row.grace_period_end]
                 /\ ~g.threw =>
                       /\ g.ownerId = loc[p].ownerId
                       /\ g.subscription = <<row>>
                       /\ g.state[1].now = clock
                       /\ g.state[1].periodEnd = row.current_period_end
                       /\ g.state[1].graceEnd = row.grace_period_end
                       /\ g.state[1].isActive <=> clock <= row.current_period_end
                       /\ g.state[1].isInGrace <=> clock > row.current_period_end
                       /\ ~g.state[1].isBlocked
      ]_vars

\* the gate refused a Blocked owner with 402, and the handler is rolling back
C5_BlockedOwnerRefused ==
    \E p \in Procs :
        /\ pc[p] = "rollback"
        /\ loc[p].gate # <<>>
        /\ loc[p].gate[1].threw
        /\ loc[p].gate[1].status = 402
        /\ loc[p].gate[1].details.ownerId = "o1"

-----------------------------------------------------------------------------
\* C6: no two Payment rows share a provider and the same non-null
\* provider_payment_id, under any interleaving of captures, webhooks and
\* manual approvals.
C6_NoDuplicateProviderPayment ==
    \A i, j \in 1..Len(payments) :
        ( /\ i # j
          /\ payments[i].provider = payments[j].provider
          /\ payments[i].provider_payment_id # NULL )
        => payments[i].provider_payment_id # payments[j].provider_payment_id

-----------------------------------------------------------------------------
\* C7: paypalCaptureOrder requests for one order that the provider answers
\* with COMPLETED and the same capture id make exactly one renewal and one
\* Payment row with provider 'paypal'.
C7_CaptureIdempotent ==
    \A p \in Procs :
        ( /\ req[p].op = "paypalCaptureOrder"
          /\ pc[p] = "done"
          /\ res[p].status = 200 )
        => LET id == Or(req[p].captureId, req[p].orderId)
           IN  /\ Cardinality(RenewalsOf("paypalCaptureOrder", id)) = 1
               /\ Cardinality(PaymentsOf("paypal", id)) = 1

-----------------------------------------------------------------------------
\* C10: every renewal is anchored on the period end committed when it commits,
\* so after two renewals of an owner current_period_end is max(now, original
\* current_period_end) + 60 days.
C10_NoRenewalLost ==
    /\ \A i \in 1..Len(renewLog) :
         renewLog[i].start = Max(renewLog[i].clock, renewLog[i].base)
    /\ Len(renewLog) = 2 =>
         subs["o1"].current_period_end
             = Max(renewLog[1].clock, renewLog[1].base) + 60

-----------------------------------------------------------------------------
\* C11: in paypalCaptureOrder, paypalWebhook and approveManualPaymentReport
\* the renewal, the Payment row and the report's status commit together or not
\* at all: only COMMIT changes the tables; after a failure of any statement
\* the ROLLBACK leaves subscription row, ledger and reports as they are and
\* drops the transaction's writes; so every committed renewal has its Payment
\* row and a report is approved exactly when its Payment row exists.
C11_RailsAtomic ==
    [][ /\ <<subs, payments, reports>>' # <<subs, payments, reports>> =>
              \E p \in Procs : pc[p] = "commit" /\ pc'[p] = "done"
        /\ \A p \in Procs :
             (pc[p] = "rollback" /\ pc'[p] # pc[p]) =>
                 /\ <<subs, payments, reports>>' = <<subs, payments, reports>>
                 /\ renewLog' = renewLog
                 /\ wr'[p] = NoWr
                 /\ res'[p] = loc[p].resp
        /\ Len(renewLog') = Len(payments')
        /\ \A i \in 1..Len(renewLog') :
             /\ payments'[i].owner_id = renewLog'[i].ownerId
             /\ renewLog'[i].op = "approveManualPaymentReport"
                   <=> payments'[i].provider = "manual"
        /\ \A r \in DOMAIN reports' :
             reports'[r].status = "approved" <=> (ManualPaymentsOf(r) # {})'
      ]_vars

\* a rail has renewed inside its transaction and the next statement, the
\* Payment insert, failed: the handler is about to send ROLLBACK
C11_FailedAfterRenewal ==
    \E p \in Procs :
        /\ pc[p] = "rollback"
        /\ loc[p].resp.status = 500
        /\ loc[p].renewed
        /\ wr[p].sub[loc[p].ownerId] # <<>>
        /\ wr[p].pay = <<>>

-----------------------------------------------------------------------------
\* C12: when the provider has completed the capture of an order and a
\* paypalCaptureOrder request for it failed, a retry of the same order that
\* meets no failure of its own ends with the renewal applied and a Payment
\* row recorded.
C12_RetryRenews ==
    \A p \in Procs :
        ( /\ req[p].op = "paypalCaptureOrder"
          /\ req[p].retry
          /\ pc[p] = "done"
          /\ res[p].status # 500 )
        => /\ \E i \in 1..Len(payments) :
                /\ payments[i].provider = "paypal"
                /\ payments[i].owner_id = req[p].userId
           /\ \E i \in 1..Len(renewLog) :
                /\ renewLog[i].op = "paypalCaptureOrder"
                /\ renewLog[i].ownerId = req[p].userId

-----------------------------------------------------------------------------
\* C13: in every gated route the gate runs inside the transaction before the
\* route's own writes, and when the gate throws the transaction is rolled
\* back: a route reaches its writes only with a gate that returned a state
\* other than Blocked, a gate that threw leads to ROLLBACK, ROLLBACK adds no
\* row, and every row a gated route committed was written behind a gate that
\* found the owner Active or in Grace.
GatePcs == {"gate_shop", "gate_owner", "gate_state", "notify_insert", "notify_update"}

C13_NoGatedWriteWhenBlocked ==
    [][ /\ \A i \in 1..Len(appRows') : appRows'[i].gate \in {"Active", "Grace"}
        /\ \A p \in Procs :
             /\ pc'[p] \in GatePcs => wr'[p].app = <<>>
             /\ pc'[p] = "gated_write" =>
                   /\ pc[p] \in {"gate_state", "notify_update", "gated_write"}
                   /\ loc'[p].gate # <<>>
                   /\ ~loc'[p].gate[1].threw
                   /\ ~loc'[p].gate[1].state[1].isBlocked
             /\ (pc[p] \in GatePcs /\ loc'[p].gate # <<>> /\ loc'[p].gate[1].threw) =>
                   /\ pc'[p] = "rollback"
                   /\ loc'[p].resp.status = loc'[p].gate[1].status
             /\ (pc[p] = "rollback" /\ pc'[p] # "rollback") =>
                   /\ appRows' = appRows
                   /\ wr'[p] = NoWr
                   /\ res'[p].status = loc[p].resp.status
      ]_vars

\* the request of a Blocked owner was answered 402 after its ROLLBACK and no
\* row of a gated route exists
C13_BlockedRequestLeftNoRow ==
    \E p \in Procs :
        /\ pc[p] = "done"
        /\ req[p].op \in {"putBarberBreaks", "updateUserProfile"}
        /\ res[p].status = 402
        /\ wr[p] = NoWr
        /\ appRows = <<>>

-----------------------------------------------------------------------------
\* C14: when a gate read found the state not Active with no expiry
\* notification sent that day, and so inserted a SUBSCRIPTION_EXPIRED
\* notification and stamped last_alert_sent_at, both are persisted once the
\* gated operation has finished, whether the gate let it proceed (Grace) or
\* failed it (Blocked).
C14_NotificationPersisted ==
    [][ \A p \in Procs :
          ( /\ pc[p] \in {"commit", "rollback"}
            /\ pc'[p] = "done"
            /\ wr[p].notif # <<>> )
          => /\ notifs' = notifs \o wr[p].notif
             /\ loc[p].ownerId \in DOMAIN subs'
             /\ subs'[loc[p].ownerId].last_alert_sent_at =
                   wr[p].sub[loc[p].ownerId][1].last_alert_sent_at
      ]_vars

-----------------------------------------------------------------------------
\* C15: gated operations of an owner in Grace that run one after the other
\* all succeed, and those of one UTC day insert one SUBSCRIPTION_EXPIRED
\* notification together: an operation inserts one exactly when the row it
\* read was not stamped that day, its commit leaves the row stamped for that
\* day or a later one, and two notifications of an owner never carry the same
\* day.
OneNotificationPerDay ==
    \A i \in 1..Len(notifs) : \A j \in 1..Len(notifs) :
        (i < j /\ notifs[i].user_id = notifs[j].user_id) => notifs[i].day < notifs[j].day

C15_NotificationOnLaterDay ==
    /\ Len(appRows) = 2
    /\ \A i \in 1..2 : appRows[i].gate = "Grace"
    /\ Len(notifs) = 2

-----------------------------------------------------------------------------
\* the step in which p's paypalConfirmSubscription commits
ConfirmCommits(p) ==
    /\ pc[p] = "commit"
    /\ pc'[p] = "done"
    /\ req[p].op = "paypalConfirmSubscription"

\* C16: when the provider status it fetched is not ACTIVE,
\* paypalConfirmSubscription persists the provider status alone: plan_code,
\* pending_plan_code, status, current_period_start, current_period_end and
\* grace_period_end of the row stay as they were and no Payment row is
\* inserted.
C16_NonActiveConfirmKeepsRow ==
    [][ \A p \in Procs :
          (ConfirmCommits(p) /\ req[p].ppStatus # "ACTIVE") =>
             LET o == loc[p].ownerId
             IN  /\ o \in DOMAIN subs
                 /\ subs'[o].paypal_subscription_status = req[p].ppStatus
                 /\ subs'[o].plan_code = subs[o].plan_code
                 /\ subs'[o].pending_plan_code = subs[o].pending_plan_code
                 /\ subs'[o].status = subs[o].status
                 /\ subs'[o].current_period_start = subs[o].current_period_start
                 /\ subs'[o].current_period_end = subs[o].current_period_end
                 /\ subs'[o].grace_period_end = subs[o].grace_period_end
                 /\ payments' = payments
                 /\ renewLog' = renewLog
      ]_vars

\* a confirmation found the provider subscription SUSPENDED and committed;
\* the pending plan of the row is still there
C16_SuspendedConfirmed ==
    \E p \in Procs :
        /\ pc[p] = "done"
        /\ req[p].op = "paypalConfirmSubscription"
        /\ res[p].status = 200
        /\ "o1" \in DOMAIN subs
        /\ subs["o1"].paypal_subscription_status = "SUSPENDED"
        /\ subs["o1"].pending_plan_code = "pro"

-----------------------------------------------------------------------------
\* C17: when the provider status is ACTIVE, paypalConfirmSubscription sets
\* plan_code to the first available of the code mapped from the provider's
\* plan id, the pending_plan_code of the row it read and that row's plan_code,
\* keeps plan_code when all three are absent, and clears pending_plan_code
\* and pending_plan_effective_at.
C17_ActiveConfirmResolvesPlan ==
    [][ \A p \in Procs :
          (ConfirmCommits(p) /\ req[p].ppStatus = "ACTIVE") =>
             LET o == loc[p].ownerId
                 read == loc[p].sub[1]
                 first == IF req[p].ppPlanCode # NULL THEN req[p].ppPlanCode
                          ELSE IF read.pending_plan_code # NULL THEN read.pending_plan_code
                          ELSE read.plan_code
             IN  /\ o \in DOMAIN subs
                 /\ subs'[o].plan_code = IF first # NULL THEN first ELSE subs[o].plan_code
                 /\ subs'[o].pending_plan_code = NULL
                 /\ subs'[o].pending_plan_effective_at = NoTime
                 /\ subs'[o].status = "active"
                 /\ subs'[o].paypal_subscription_status = "ACTIVE"
      ]_vars

\* an ACTIVE confirmation whose provider plan id maps to no code has committed
\* the pending plan pro as plan_code
C17_PendingPlanConfirmed ==
    \E p \in Procs :
        /\ pc[p] = "done"
        /\ req[p].op = "paypalConfirmSubscription"
        /\ req[p].ppStatus = "ACTIVE"
        /\ req[p].ppPlanCode = NULL
        /\ res[p].status = 200
        /\ subs["o1"].plan_code = "pro"
        /\ subs["o1"].pending_plan_code = NULL

-----------------------------------------------------------------------------
\* C18: an ACTIVE paypalConfirmSubscription renews as the Renewal Operation
\* does: the new period starts at max(now, previous current_period_end) and
\* lasts 30 days, so current_period_end never becomes earlier, and
\* grace_period_end = current_period_end + 5 days.
C18_ConfirmRenewsMonotonically ==
    [][ \A p \in Procs :
          (ConfirmCommits(p) /\ req[p].ppStatus = "ACTIVE") =>
             LET o == loc[p].ownerId
                 previousEnd == subs[o].current_period_end
                 start == Max(loc[p].clock, previousEnd)
             IN  /\ subs'[o].current_period_start = start
                 /\ subs'[o].current_period_end = start + PeriodDays
                 /\ subs'[o].current_period_end >= previousEnd
                 /\ subs'[o].grace_period_end = subs'[o].current_period_end + GraceDays
      ]_vars

\* after an ACTIVE confirmation grace_period_end = current_period_end + 5 days
ConfirmGraceFollowsEnd ==
    [][ \A p \in Procs :
          (ConfirmCommits(p) /\ req[p].ppStatus = "ACTIVE") =>
             subs'[loc[p].ownerId].grace_period_end =
                subs'[loc[p].ownerId].current_period_end + GraceDays
      ]_vars

\* whether confirming can move current_period_end back
ConfirmNeverMovesEndBack ==
    [][ \A p \in Procs :
          (ConfirmCommits(p) /\ req[p].ppStatus = "ACTIVE") =>
             subs'[loc[p].ownerId].current_period_end >=
                subs[loc[p].ownerId].current_period_end
      ]_vars

-----------------------------------------------------------------------------
\* the tier of a plan code
TierOfCode(code) == PLAN_TIERS[CHOOSE i \in 1..Len(PLAN_TIERS) : PLAN_TIERS[i].code = code]

\* the usage u exceeds the limits of the tier of a valid plan code
ExceedsTier(code, u) ==
    /\ code \in VALID_PLAN_CODES
    /\ \/ u.shopCount > TierOfCode(code).shops
       \/ u.professionalCount > TierOfCode(code).professionals

\* C20: paypalCreateSubscription rejects with 400, before the provider
\* subscription is created and before any field of the row is written, every
\* valid requested plan code whose tier limits the owner's shopCount or
\* professionalCount exceed, and every request of an owner whose usage is over
\* the largest tier.
C20_CreateRejectsExceededPlan ==
    [][ \A p \in Procs :
          ( /\ pc[p] = "create_check"
            /\ pc'[p] # "create_check"
            /\ req[p].planCode \in VALID_PLAN_CODES
            /\ \/ ExceedsTier(req[p].planCode, usage[req[p].userId])
               \/ computeMonthlyPriceDop(usage[req[p].userId]).isOverLimit )
          => /\ pc'[p] = "done"
             /\ res'[p].status = 400
             /\ subs' = subs
             /\ wr'[p] = NoWr
      ]_vars

\* a valid plan code of an owner whose usage is over the largest tier is
\* rejected with 400
CreateRejectsOverLimit ==
    [][ \A p \in Procs :
          ( /\ pc[p] = "create_check"
            /\ pc'[p] # "create_check"
            /\ req[p].planCode \in VALID_PLAN_CODES
            /\ computeMonthlyPriceDop(usage[req[p].userId]).isOverLimit )
          => /\ pc'[p] = "done"
             /\ res'[p].status = 400
      ]_vars

-----------------------------------------------------------------------------
\* the step in which a webhook delivery that renewed commits
WebhookRenewalCommits(p) ==
    /\ pc[p] = "commit"
    /\ pc'[p] = "done"
    /\ req[p].op = "paypalWebhook"
    /\ loc[p].renewed

\* C19: a renewal made for a webhook payment event persists as plan_code the
\* pending_plan_code of the row when one is set and otherwise the tier of the
\* owner's usage, and once it has committed pending_plan_code is NULL.
C19_WebhookRenewalClearsPending ==
    [][ \A p \in Procs :
          WebhookRenewalCommits(p) =>
             LET o == loc[p].ownerId
                 read == loc[p].sub[1]
             IN  /\ subs'[o].plan_code =
                       IF read.pending_plan_code # NULL THEN read.pending_plan_code
                       ELSE computeMonthlyPriceDop(usage[o]).tier.code
                 /\ subs'[o].pending_plan_code = NULL
      ]_vars

\* a webhook renewal persists a pending plan code as plan_code
WebhookRenewalPersistsPending ==
    [][ \A p \in Procs :
          (WebhookRenewalCommits(p) /\ loc[p].sub[1].pending_plan_code # NULL) =>
             subs'[loc[p].ownerId].plan_code = loc[p].sub[1].pending_plan_code
      ]_vars

-----------------------------------------------------------------------------
\* the step in which p's verified webhook delivery commits
WebhookCommits(p) ==
    /\ pc[p] = "commit"
    /\ pc'[p] = "done"
    /\ req[p].op = "paypalWebhook"

\* the delivery is a payment-success event with a transaction id whose
\* provider lookup succeeded with a plan id that maps to a plan code
ProviderPlanKnown(r) ==
    /\ isPaymentSuccessEvent(r.event.event_type)
    /\ EventTransactionId(r.event) # NULL
    /\ r.ppOk
    /\ r.ppPlanCode # NULL

\* C21: after paypalWebhook has processed a payment-success event whose
\* provider lookup succeeded and whose plan id maps to a plan code, the
\* committed plan_code is that code, whatever plan_code and pending_plan_code
\* were before.
C21_ProviderPlanIsCommitted ==
    [][ \A p \in Procs :
          (WebhookCommits(p) /\ ProviderPlanKnown(req[p])) =>
             subs'[loc[p].ownerId].plan_code = req[p].ppPlanCode
      ]_vars

\* the same for rows that have no pending plan code
ProviderPlanIsCommittedWithoutPending ==
    [][ \A p \in Procs :
          ( /\ WebhookCommits(p)
            /\ ProviderPlanKnown(req[p])
            /\ subs[loc[p].ownerId].pending_plan_code = NULL )
          => subs'[loc[p].ownerId].plan_code = req[p].ppPlanCode
      ]_vars

-----------------------------------------------------------------------------
\* C22: paypalWebhook trusts a delivery only after the signature verification
\* reported SUCCESS: when the verification fails, answers another status, the
\* webhook id is not configured or a transmission header is missing, the
\* handler answers with an error, never reads a row for update and writes or
\* changes no subscription row, Payment row or notification.
C22_UnverifiedWebhookTouchesNothing ==
    [][ \A p \in Procs :
          ( /\ req'[p].op = "paypalWebhook"
            /\ req'[p].verified # "SUCCESS"
            /\ pc'[p] # pc[p] )
          => /\ pc'[p] \in {"wh_verify", "rollback", "done"}
             /\ wr'[p] = NoWr
             /\ \A o \in Owners : lock'[o] # p
             /\ pc[p] \in {"wh_verify", "rollback"} =>
                   /\ <<subs, payments, notifs, reports>>' = <<subs, payments, notifs, reports>>
                   /\ renewLog' = renewLog
             /\ pc'[p] = "done" => res'[p].status \in {400, 500, 502}
      ]_vars

\* a delivery without its transmission headers was answered 400
C22_HeaderlessDeliveryRefused ==
    \E p \in Procs :
        /\ pc[p] = "done"
        /\ req[p].op = "paypalWebhook"
        /\ req[p].verified = "NO_HEADERS"
        /\ res[p].status = 400
        /\ payments = <<>>

-----------------------------------------------------------------------------
\* the event types that report a completed payment
CompletedPaymentTypes ==
    {"BILLING.SUBSCRIPTION.PAYMENT.SUCCEEDED", "PAYMENT.CAPTURE.COMPLETED",
     "PAYMENT.SALE.COMPLETED"}

\* the columns of a row other than the provider status and billing provider
RestOfRow(row) ==
    [row EXCEPT !.paypal_subscription_status = NULL, !.billing_provider = NULL]

\* C23: paypalWebhook renews and inserts a Payment row only for
\* payment-success events: for every other verified event (subscription-status
\* events and payment events of a pending, failed, denied, reversed or
\* refunded payment) the period boundaries and the ledger are unchanged, and
\* a subscription-status event changes only paypal_subscription_status and
\* billing_provider.
C23_OnlyPaymentSuccessRenews ==
    [][ \A p \in Procs :
          (WebhookCommits(p) /\ req[p].event.event_type \notin CompletedPaymentTypes) =>
             LET o == loc[p].ownerId
             IN  /\ PeriodOf(subs'[o]) = PeriodOf(subs[o])
                 /\ payments' = payments
                 /\ renewLog' = renewLog
                 /\ IsSubscriptionEvent(req[p].event.event_type) =>
                       RestOfRow(subs'[o]) = RestOfRow(subs[o])
      ]_vars

\* the same for the events other than PAYMENT.SALE.PENDING
FailedPaymentEventsChangeNothing ==
    [][ \A p \in Procs :
          ( /\ WebhookCommits(p)
            /\ req[p].event.event_type \notin CompletedPaymentTypes
            /\ req[p].event.event_type # "PAYMENT.SALE.PENDING" )
          => LET o == loc[p].ownerId
             IN  /\ PeriodOf(subs'[o]) = PeriodOf(subs[o])
                 /\ payments' = payments
                 /\ renewLog' = renewLog
                 /\ IsSubscriptionEvent(req[p].event.event_type) =>
                       /\ RestOfRow(subs'[o]) = RestOfRow(subs[o])
                       /\ subs'[o].billing_provider = "paypal"
      ]_vars

-----------------------------------------------------------------------------
\* the days at which the derived state of a row is compared
StateDays == (0 - 10)..60

\* p, handling a request of operation op, takes a step
StepOf(p, op) == req[p].op = op /\ req'[p] = req[p] /\ pc'[p] # pc[p]

\* C24: after the provider accepted the cancel call paypalCancelSubscription
\* sets paypal_subscription_status = 'CANCELLED' and leaves the period
\* columns, status and plan_code as they were, so that the state derived from
\* the row is at every time the one derived without the cancel; when the
\* provider call fails, and in every step before the UPDATE, existing rows are
\* unchanged.
C24_CancelKeepsPeriod ==
    [][ \A p \in Procs :
          StepOf(p, "paypalCancelSubscription") =>
             /\ payments' = payments
             /\ \A o \in DOMAIN subs :
                  /\ PeriodOf(subs'[o]) = PeriodOf(subs[o])
                  /\ subs'[o].status = subs[o].status
                  /\ subs'[o].plan_code = subs[o].plan_code
                  /\ subs'[o].pending_plan_code = subs[o].pending_plan_code
                  /\ \A t \in StateDays :
                       computeSubscriptionState(subs'[o], t) =
                          computeSubscriptionState(subs[o], t)
                  /\ subs'[o].paypal_subscription_status =
                        IF pc[p] = "cancel_update" THEN "CANCELLED"
                        ELSE subs[o].paypal_subscription_status
             /\ pc[p] = "cancel_update" <=> (pc'[p] = "done" /\ res'[p].status = 200)
             /\ (pc[p] = "cancel_provider" /\ ~req[p].ppOk) =>
                   (subs' = subs /\ res'[p].status \in {400, 502})
      ]_vars

\* a cancel was accepted and stored while the owner's period has not ended:
\* the owner is still Active
C24_CancelledStillActive ==
    \E p \in Procs :
        /\ pc[p] = "done"
        /\ req[p].op = "paypalCancelSubscription"
        /\ res[p].status = 200
        /\ subs["o1"].paypal_subscription_status = "CANCELLED"
        /\ computeSubscriptionState(subs["o1"], now).isActive

-----------------------------------------------------------------------------
-----------------------------------------------------------------------------
(* Manual payment reports *)

ReportCommits(p) ==
    /\ req[p].op = "createManualPaymentReport"
    /\ pc[p] = "commit"
    /\ pc'[p] = "done"

PeriodColumns(row) ==
    <<row.current_period_start, row.current_period_end, row.grace_period_end>>

\* C26: createManualPaymentReport changes the database in one step only, its
\* commit, which adds exactly one report, in status 'pending' and of the
\* reporting owner, and sets the owner's subscription to 'pending_verification'
\* with the period columns and the derived state the committed row had; every
\* other step of the handler, its rollback included, leaves the tables as they
\* are; a request with neither reference nor proof is answered 400 at once,
\* with no transaction opened
C26_ReportAndStatusTogether ==
    [][\A p \in Procs :
          req[p].op = "createManualPaymentReport" /\ pc'[p] # pc[p] =>
             /\ IF ReportCommits(p)
                THEN LET o == loc[p].ownerId
                         new == DOMAIN reports' \ DOMAIN reports
                     IN  /\ res'[p].status = 201
                         /\ Cardinality(new) = 1
                         /\ \A r \in new : /\ reports'[r].status = "pending"
                                            /\ reports'[r].owner_id = o
                         /\ \A r \in DOMAIN reports : reports'[r] = reports[r]
                         /\ subs'[o].status = "pending_verification"
                         /\ payments' = payments
                         /\ o \in DOMAIN subs =>
                               /\ PeriodColumns(subs'[o]) = PeriodColumns(subs[o])
                               /\ computeSubscriptionState(subs'[o], now)
                                    = computeSubscriptionState(subs[o], now)
                ELSE UNCHANGED dbVars
             /\ pc[p] = "mpr_begin" /\ req[p].userId # NULL
                  /\ IsAdminOrOwner(req[p].role)
                  /\ req[p].reference = NULL /\ req[p].proofUrl = NULL =>
                    /\ pc'[p] = "done"
                    /\ res'[p].status = 400
                    /\ UNCHANGED <<dbVars, lockVars, wr>>]_vars

\* a report was committed, and a request of the owner that carried neither
\* reference nor proof was refused
C26_ReportedAndRefused ==
    \E p, q \in Procs :
        /\ req[p].op = "createManualPaymentReport"
        /\ res[p].status = 201
        /\ Cardinality(DOMAIN reports) = 1
        /\ \A r \in DOMAIN reports : reports[r].status = "pending"
        /\ "o1" \in DOMAIN subs
        /\ subs["o1"].status = "pending_verification"
        /\ req[q].op = "createManualPaymentReport"
        /\ req[q].role = "owner"
        /\ req[q].reference = NULL /\ req[q].proofUrl = NULL
        /\ res[q].status = 400

DecisionCommits(p, op) ==
    /\ req[p].op = op
    /\ pc[p] = "commit"
    /\ pc'[p] = "done"

\* C27: the approval of a pending report changes the database in one step
\* only, its commit, which sets the owner's row to 'active' with a period end
\* 30 days after the later of the day of the renewal and the period end of
\* the row the renewal fetched, appends exactly one Payment row of provider 'manual' with the report's
\* amount and currency, and marks the report approved by the approving admin
C27_ApprovalRenewsAndRecords ==
    [][\A p \in Procs :
          req[p].op = "approveManualPaymentReport" /\ pc'[p] # pc[p] =>
             IF DecisionCommits(p, "approveManualPaymentReport")
             THEN LET o == loc[p].ownerId
                      id == req[p].reportId
                  IN  /\ reports[id].status = "pending"
                      /\ subs'[o].status = "active"
                      /\ subs'[o].current_period_end
                           = Max(loc[p].clock, loc[p].sub[1].current_period_end) + 30
                      /\ payments' = Append(payments,
                                            PaymentRow(o, "manual", reports[id].amount,
                                                       reports[id].currency, NULL, id))
                      /\ reports' = [reports EXCEPT
                                        ![id] = [reports[id] EXCEPT
                                                    !.status = "approved",
                                                    !.approved_by = req[p].userId,
                                                    !.decided_at = "set"]]
                      /\ reports'[id].approved_by = "u-admin"
                      /\ res'[p].status = 200
             ELSE UNCHANGED dbVars]_vars

\* an approval was committed for an owner whose period was still running
C27_ApprovedReport ==
    /\ \E p \in Procs : /\ req[p].op = "approveManualPaymentReport"
                        /\ res[p].status = 200
    /\ reports["r1"].status = "approved"
    /\ Len(payments) = 1
    /\ payments[1].provider = "manual"
    /\ payments[1].amount = 1500
    /\ subs["o1"].status = "active"
    /\ Len(renewLog) = 1
    /\ renewLog[1].read > renewLog[1].clock

\* C28: the rejection of a pending report changes the database in one step
\* only, its commit, which marks the report rejected, with rejected_by the
\* rejecting admin and decided_at set, and changes nothing else: the
\* subscriptions rows, the payments ledger, the other reports and the history
\* of renewals are as before
C28_RejectionOnlyMarksReport ==
    [][\A p \in Procs :
          req[p].op = "rejectManualPaymentReport" /\ pc'[p] # pc[p] =>
             /\ UNCHANGED <<subs, payments, renewLog>>
             /\ wr'[p].sub = NoWr.sub
             /\ wr'[p].pay = <<>>
             /\ IF DecisionCommits(p, "rejectManualPaymentReport")
                THEN LET id == req[p].reportId
                     IN  /\ reports[id].status = "pending"
                         /\ reports' = [reports EXCEPT
                                           ![id] = [reports[id] EXCEPT
                                                       !.status = "rejected",
                                                       !.rejected_by = "u-admin",
                                                       !.decided_at = "set"]]
                         /\ res'[p].status = 200
                ELSE UNCHANGED reports]_vars

\* a rejection was committed and the owner's row is the one the report left
C28_RejectedReport ==
    /\ \E p \in Procs : /\ req[p].op = "rejectManualPaymentReport"
                        /\ res[p].status = 200
    /\ reports["r1"].status = "rejected"
    /\ reports["r1"].rejected_by = "u-admin"
    /\ subs["o1"].status = "pending_verification"
    /\ payments = <<>>
    /\ renewLog = <<>>


-----------------------------------------------------------------------------
(* Pricing *)

\* tier i accommodates the counts of usage u
Accommodates(i, u) ==
    /\ u.shopCount <= PLAN_TIERS[i].shops
    /\ u.professionalCount <= PLAN_TIERS[i].professionals

\* the result of the call of usage (s, pr) has tier code and total
PricedAs(s, pr, code, total) ==
    arg = <<[shopCount |-> s, professionalCount |-> pr]>> =>
        /\ out[1].tier.code = code
        /\ out[1].total = total

\* C29: for at most 3 shops and at most 12 professionals the result is not
\* over the limit, its tier is the first of basic_1, basic_2, pro, premium
\* that accommodates both counts and its total is that tier's price; 1 shop
\* with 2 professionals is basic_1 at 1000, 2 shops with 5 professionals is
\* pro at 2000
C29_FirstFittingTier ==
    out # <<>> /\ arg[1].shopCount <= 3 /\ arg[1].professionalCount <= 12 =>
        /\ out[1].isOverLimit = FALSE
        /\ \E i \in 1..4 :
              /\ <<PLAN_TIERS[1].code, PLAN_TIERS[2].code, PLAN_TIERS[3].code,
                    PLAN_TIERS[4].code>> = <<"basic_1", "basic_2", "pro", "premium">>
              /\ Accommodates(i, arg[1])
              /\ \A j \in 1..(i - 1) : ~Accommodates(j, arg[1])
              /\ out[1].tier = PLAN_TIERS[i]
              /\ out[1].total = PLAN_TIERS[i].priceDop
        /\ PricedAs(1, 2, "basic_1", 1000)
        /\ PricedAs(2, 5, "pro", 2000)

\* the call for 2 shops and 5 professionals has returned
C29_TwoShopsFiveProfessionals ==
    /\ arg = <<[shopCount |-> 2, professionalCount |-> 5]>>
    /\ out # <<>>
    /\ out[1].tier.code = "pro"

\* C30: for more than 3 shops or more than 12 professionals the result is
\* over the limit, with no tier and no total, and its overage is the excess
\* of each count over 3 and 12, 0 where there is none; 4 shops with 20
\* professionals give an overage of 1 shop and 8 professionals
C30_OverLimitOverage ==
    out # <<>> /\ (arg[1].shopCount > 3 \/ arg[1].professionalCount > 12) =>
        /\ out[1].isOverLimit = TRUE
        /\ out[1].tier = NoTier
        /\ out[1].total = NoTotal
        /\ out[1].overage.shops = Max(0, arg[1].shopCount - 3)
        /\ out[1].overage.professionals = Max(0, arg[1].professionalCount - 12)
        /\ arg = <<[shopCount |-> 4, professionalCount |-> 20]>> =>
              out[1].overage = [shops |-> 1, professionals |-> 8]

\* the call for 4 shops and 20 professionals has returned
C30_FourShopsTwentyProfessionals ==
    /\ arg = <<[shopCount |-> 4, professionalCount |-> 20]>>
    /\ out # <<>>
    /\ out[1].isOverLimit


-----------------------------------------------------------------------------
(* The subscriptions row of an owner *)

\* p's getOrCreateOwnerSubscription inserts in this step
FirstAccessInserts(p) ==
    /\ pc[p] \in {"goc_insert", "goca_insert"}
    /\ pc'[p] = loc[p].ret

-----------------------------------------------------------------------------
(* Blocked owners *)

\* the derived state of the committed row of owner o at clock t is Blocked
BlockedAt(rows, o, t) ==
    /\ o \in DOMAIN rows
    /\ computeSubscriptionState(rows[o], t).isBlocked

\* p commits a renewal of one of the four rails, or an ACTIVE confirmation
PeriodRewriteCommits(p) ==
    /\ pc[p] = "commit"
    /\ pc'[p] = "done"
    /\ \/ /\ loc[p].renewed
          /\ req[p].op \in {"paypalCaptureOrder", "approveManualPaymentReport",
                            "adminActivateSubscription"}
       \/ /\ loc[p].renewed
          /\ req[p].op = "paypalWebhook"
          /\ isPaymentSuccessEvent(req[p].event.event_type)
       \/ /\ req[p].op = "paypalConfirmSubscription"
          /\ req[p].ppStatus = "ACTIVE"

\* C32: an owner whose derived state is Blocked is Blocked after every step,
\* the passing of time included, except the commit of a renewal by order
\* capture, webhook payment event, manual approval or admin activation, or
\* of a confirmation with provider status ACTIVE, for that owner
C32_BlockedUntilRenewal ==
    [][\A o \in Owners :
          BlockedAt(subs, o, now) /\ ~BlockedAt(subs', o, now') =>
             \E p \in Procs : PeriodRewriteCommits(p) /\ loc[p].ownerId = o]_vars

\* a Blocked owner is still Blocked a day after a gated write was refused and
\* a cancellation at the provider was stored
C32_StillBlockedAfterCancel ==
    \E p, q \in Procs :
        /\ BlockedAt(subs, "o1", now)
        /\ now >= 1
        /\ req[p].op = "paypalCancelSubscription"
        /\ res[p].status = 200
        /\ subs["o1"].paypal_subscription_status = "CANCELLED"
        /\ req[q].op = "putBarberBreaks"
        /\ res[q].status = 402


-----------------------------------------------------------------------------
(* Rows without a period end *)

AbsentPeriodEndNeverActive ==
    out # <<>> /\ arg[1].current_period_end = NoTime =>
        /\ ~out[1].isActive
        /\ out[1].isBlocked <=>
              (arg[1].grace_period_end = NoTime \/ arg[2] > arg[1].grace_period_end)


-----------------------------------------------------------------------------
(* Writes of the subscriptions table *)

\* the handlers that send no BEGIN
AutocommitOps ==
    {"paypalCancelSubscription", "paypalChangeSubscriptionPlan",
     "getOwnerSubscriptionSummary"}

\* C34: the committed subscriptions rows change only when a handler's
\* transaction commits: no statement of a handler changes them on its own,
\* outside a transaction opened with BEGIN
C34_RowsChangeOnlyAtCommit ==
    [][subs' # subs => \E p \in Procs : pc[p] = "commit" /\ pc'[p] = "done"]_vars

\* the committed rows change outside a COMMIT only in the steps of the
\* handlers that send no BEGIN: their lazy INSERT, the status write of the
\* cancellation and the pending-plan write of the change of plan
RowsChangeAtCommitOrAutocommit ==
    [][subs' # subs =>
          \E p \in Procs :
              \/ pc[p] = "commit" /\ pc'[p] = "done"
              \/ /\ req[p].op \in AutocommitOps
                 /\ pc[p] \in {"goca_insert", "cancel_update", "change_update"}
                 /\ pc'[p] # pc[p]]_vars


-----------------------------------------------------------------------------
(* Captures that did not complete *)

\* the provider's answer to the capture of r is not a completed capture
NotCompleted(r) == ~r.ppOk \/ r.ppStatus # "COMPLETED"

\* C35: a capture request that passes the checks of the caller and whose
\* capture the provider answers with an error or with a status other than
\* COMPLETED is answered 502 or 400; no step of it writes a row, takes a
\* lock or changes the tables or the history of renewals; and a capture
\* request commits a renewal only with one Payment row and only for a
\* capture the provider completed
C35_OnlyCompletedCaptureRenews ==
    [][\A p \in Procs :
          req[p].op = "paypalCaptureOrder" /\ pc'[p] # pc[p] =>
             /\ NotCompleted(req[p]) =>
                   /\ UNCHANGED <<dbVars, lockVars, renewLog>>
                   /\ wr'[p] = NoWr
                   /\ pc'[p] \in {"capture", "rollback", "done"}
                   /\ pc'[p] = "done" /\ req[p].orderId # NULL =>
                         res'[p].status = IF req[p].ppOk THEN 400 ELSE 502
             /\ renewLog' # renewLog =>
                   /\ req[p].ppOk /\ req[p].ppStatus = "COMPLETED"
                   /\ Len(payments') = Len(payments) + 1
                   /\ payments'[Len(payments')].provider = "paypal"]_vars

\* the provider's error was answered 502 and a capture left PENDING was
\* answered 400, and nothing was stored
C35_RefusedCaptures ==
    \E p, q \in Procs :
        /\ req[p].op = "paypalCaptureOrder" /\ ~req[p].ppOk
        /\ res[p].status = 502
        /\ req[q].op = "paypalCaptureOrder" /\ req[q].ppStatus = "PENDING"
        /\ res[q].status = 400
        /\ payments = <<>>
        /\ renewLog = <<>>


-----------------------------------------------------------------------------
(* The ledger of payments *)

\* C36: every step keeps the Payment rows it found, in their place and with
\* the values they were inserted with, so that the ledger only grows at its
\* end; and every owner who has a subscriptions row keeps one
C36_LedgerAppendOnly ==
    [][/\ Len(payments') >= Len(payments)
       /\ SubSeq(payments', 1, Len(payments)) = payments
       /\ DOMAIN subs \subseteq DOMAIN subs']_vars

\* two payments of one owner, from two rails, stand in the ledger
C36_TwoPaymentsOfOneOwner ==
    /\ Len(payments) = 2
    /\ payments[1].owner_id = payments[2].owner_id
    /\ payments[1].provider # payments[2].provider
    /\ payments[1].owner_id \in DOMAIN subs


-----------------------------------------------------------------------------
(* The grace period of a row *)

\* C37: in every state every subscriptions row, committed or written by a
\* transaction still open, has grace_period_end = current_period_end + 5
\* days
C37_GraceFollowsPeriodEnd ==
    /\ \A o \in DOMAIN subs :
          subs[o].grace_period_end = subs[o].current_period_end + GraceDays
    /\ \A p \in Procs : \A o \in Owners :
          wr[p].sub[o] # <<>> =>
             wr[p].sub[o][1].grace_period_end =
                wr[p].sub[o][1].current_period_end + GraceDays

\* a row whose period was written by a confirmation from the provider's
\* next billing time, and one whose period a renewal wrote
C37_ConfirmedFromNextBilling ==
    \E p \in Procs :
        /\ req[p].op = "paypalConfirmSubscription"
        /\ req[p].nextBilling # NoTime
        /\ pc[p] = "done" /\ res[p].status = 200
        /\ subs["o1"].current_period_end = req[p].nextBilling
        /\ subs["o1"].grace_period_end = req[p].nextBilling + GraceDays


-----------------------------------------------------------------------------
(* The order of a row's period *)

\* C38: in every state every subscriptions row has
\* current_period_start <= current_period_end
C38_PeriodStartBeforeEnd ==
    \A o \in DOMAIN subs :
        subs[o].current_period_start <= subs[o].current_period_end

\* a step that writes the period of a row leaves it with start <= end,
\* unless it commits a confirmation that took the end from the provider's
\* next billing time
PeriodOrderedWithoutNextBilling ==
    [][\A o \in DOMAIN subs' :
          /\ o \in DOMAIN subs => PeriodColumns(subs'[o]) # PeriodColumns(subs[o])
          /\ ~ \E p \in Procs : /\ ConfirmCommits(p)
                                /\ req[p].nextBilling # NoTime
          => subs'[o].current_period_start <= subs'[o].current_period_end]_vars


-----------------------------------------------------------------------------
(* Confirmations of another provider subscription *)

\* the row the confirmation of p fetched is linked to another provider
\* subscription than the request names, or to none
OtherSubscription(p) ==
    /\ req[p].op = "paypalConfirmSubscription"
    /\ loc[p].sub # <<>>
    /\ Or(loc[p].sub[1].paypal_subscription_id, "") # req[p].subscriptionId

\* C39: a confirmation whose subscriptionId differs from the
\* paypal_subscription_id of the row it fetched writes nothing, is rolled
\* back and answered 400 whatever status the provider reported, and its
\* steps leave the committed rows as they are; a confirmation commits only
\* for the subscription its row is linked to
C39_ForeignSubscriptionRefused ==
    [][\A p \in Procs :
          /\ OtherSubscription(p) /\ pc[p] = "confirm_update" /\ pc'[p] # pc[p] =>
                /\ pc'[p] = "rollback"
                /\ wr'[p] = wr[p]
                /\ lock' = lock
                /\ UNCHANGED dbVars
          /\ OtherSubscription(p) /\ pc[p] = "rollback" /\ pc'[p] = "done" =>
                /\ res'[p].status = 400
                /\ wr'[p] = NoWr
                /\ UNCHANGED dbVars
          /\ ConfirmCommits(p) =>
                /\ loc[p].sub # <<>>
                /\ loc[p].sub[1].paypal_subscription_id = req[p].subscriptionId
      ]_vars

\* the confirmation of I-2, which the provider reports ACTIVE, was answered
\* 400 and the row linked to I-1 still waits for its approval
C39_ActiveForeignSubscription ==
    \E p \in Procs :
        /\ req[p].op = "paypalConfirmSubscription"
        /\ req[p].subscriptionId = "I-2" /\ req[p].ppStatus = "ACTIVE"
        /\ pc[p] = "done" /\ res[p].status = 400
        /\ "o1" \in DOMAIN subs
        /\ subs["o1"].paypal_subscription_id = "I-1"
        /\ subs["o1"].paypal_subscription_status = "APPROVAL_PENDING"
        /\ subs["o1"].current_period_end = 20


-----------------------------------------------------------------------------
(* Who may report and who may decide *)

\* C40: a createManualPaymentReport request of a caller who is not an admin
\* works on no owner but the caller, whatever ownerId its body carries: its
\* commit adds reports of the caller only and changes no subscriptions row
\* but the caller's; a caller who is neither admin nor owner is answered 403
\* at once; and an approval or rejection by a caller who is not an admin is
\* answered 403, and no step of either changes a table or writes a row
C40_OnlyOwnReportsOnlyAdminDecides ==
    [][\A p \in Procs :
          pc'[p] # pc[p] =>
             /\ req[p].op = "createManualPaymentReport" /\ ~IsAdmin(req[p].role) =>
                   /\ loc'[p].ownerId \in {NULL, req[p].userId}
                   /\ ReportCommits(p) =>
                         /\ \A id \in DOMAIN reports' \ DOMAIN reports :
                               reports'[id].owner_id = req[p].userId
                         /\ \A o \in DOMAIN subs' \ {req[p].userId} :
                               o \in DOMAIN subs /\ subs'[o] = subs[o]
                   /\ ~IsAdminOrOwner(req[p].role) =>
                         /\ UNCHANGED dbVars
                         /\ wr'[p] = NoWr
                         /\ pc[p] = "mpr_begin" =>
                               pc'[p] = "done" /\ res'[p].status = 403
             /\ (/\ req[p].op \in {"approveManualPaymentReport",
                                   "rejectManualPaymentReport"}
                 /\ ~IsAdmin(req[p].role)) =>
                   /\ UNCHANGED dbVars
                   /\ wr'[p] = NoWr
                   /\ pc[p] \notin {"idle", "done"} /\ pc'[p] = "done" =>
                         res'[p].status = 403
      ]_vars

\* the owner's report that named another owner was stored for the owner
\* themself, the client's report was answered 403
C40_ForeignOwnerIdIgnored ==
    \E p, q \in Procs :
        /\ req[p].op = "createManualPaymentReport"
        /\ req[p].role = "owner" /\ req[p].ownerId = "o2"
        /\ pc[p] = "done" /\ res[p].status = 201
        /\ "r2" \in DOMAIN reports /\ reports["r2"].owner_id = req[p].userId
        /\ req[q].op = "createManualPaymentReport" /\ req[q].role = "client"
        /\ pc[q] = "done" /\ res[q].status = 403
        /\ DOMAIN reports = {"r1", "r2"}

=============================================================================














